---------------------------- MODULE Spec2Model ----------------------------
(***************************************************************************)
(* Verification model of the PDF -> DOCX converter: the page-layout core   *)
(* (src/pdf_converter/pdf_extractor.py: column detection, block            *)
(* segmentation, header/footer classification, reading order, document     *)
(* extraction), the document writer (src/pdf_converter/docx_generator.py)  *)
(* the layout-hint services (src/pdf_converter/layout_analyzer.py,         *)
(* src/pdf_converter/vision_analyzer.py) and the page analysis of          *)
(* PDFAnalyzer (src/pdf_converter/analyzer.py).                            *)
(*                                                                         *)
(* Lengths.  The code computes with Python floats in PDF points.  Every    *)
(* length of the model (coordinates, font sizes, thresholds) is an integer *)
(* number of 1/8 point, written Pt(n) for n points.  With the page widths  *)
(* of PageWidths every bin edge, gutter centre and merged gutter of the    *)
(* code is a multiple of 1/8 point, so the integer arithmetic below is the *)
(* code's arithmetic.  Products with a decimal factor (0.15, 1.2, ...) are *)
(* compared after multiplying both sides by the factor's denominator.      *)
(* The spacings the writer computes are integers in 1/240 point, Sp(n).    *)
(*                                                                         *)
(* The specifications share the variables:                                 *)
(*   Spec         _extract_text_lines ; _detect_columns                    *)
(*   SpecBlocks   _assign_columns_to_lines ; _group_lines_into_blocks ;    *)
(*                _mark_headers_footers                                    *)
(*   SpecOrder    _create_reading_order                                    *)
(*   SpecDocx     _extract_page ; DOCXGenerator.generate, pages with       *)
(*                tables and images                                        *)
(*   SpecFlow     _extract_page ; DOCXGenerator.generate, pages of stacked *)
(*                text lines                                               *)
(*   SpecDocument PDFExtractor.extract_document                            *)
(*   SpecGenerate DOCXGenerator.generate and the save of the document      *)
(*   SpecAnalyzer analyze_document of LayoutAnalyzer and of                *)
(*                ClaudeVisionAnalyzer                                     *)
(*   SpecDetect   _detect_columns on pages with stray and degenerate lines *)
(*   SpecFallback DOCXGenerator.generate on a page without elements        *)
(*   SpecReading  PDFAnalyzer._analyze_page                                *)
(***************************************************************************)
EXTENDS Integers, Sequences, FiniteSets

VARIABLES
    pc,            \* position in the operation under way
    page_width,    \* page.rect.width
    page_height,   \* page.rect.height
    lines,         \* text_lines: sequence of TextLine
    column_info,   \* ColumnInfo returned by _detect_columns
    text_blocks,   \* sequence of TextBlock
    images,        \* sequence of ImageInfo
    tables,        \* sequence of TableInfo
    elements,      \* sequence of PageElement returned by _create_reading_order
    doc,           \* DOCXGenerator.doc: what was written to the document body
    text_count,    \* DOCXGenerator._text_count
    image_count,   \* DOCXGenerator._image_count
    table_count,   \* DOCXGenerator._table_count
    errors,        \* DOCXGenerator._errors
    page_index,    \* number of pages DOCXGenerator.generate has emitted
    save_outcome,  \* what doc.save(output_path) did
    result,        \* <<>> or the one value returned / exception raised
    source,        \* the PDF opened by extract_document: its pages
    layout_hints,  \* the layout_hints argument of extract_document
    pages,         \* sequence of PageContent
    analyzer,      \* which hint service analyses the document
    responses,     \* what the hint service answers, page by page
    page_layouts   \* the analyses collected by analyze_document

page_vars == <<page_width, page_height, lines, column_info, text_blocks,
               images, tables, elements>>

generator_vars == <<doc, text_count, image_count, table_count, errors,
                    page_index, save_outcome>>

document_vars == <<source, layout_hints, pages>>

analyzer_vars == <<analyzer, responses, page_layouts>>

\* Everything outside PDFExtractor._extract_page.
outside_page == <<generator_vars, result, document_vars, analyzer_vars>>

vars == <<pc, page_vars, outside_page>>

---------------------------------------------------------------------------
(* Units and generic helpers                                               *)

\* n points in model units (1/8 point).
Pt(n) == n * 8

Max2(a, b) == IF a >= b THEN a ELSE b
Min2(a, b) == IF a <= b THEN a ELSE b

\* Python int(a / b) for b > 0: truncation toward zero.
Trunc(a, b) == IF a >= 0 THEN a \div b ELSE -((-a) \div b)

\* Lexicographic a < b on integer tuples of equal length (Python tuple order).
RECURSIVE TupleLess(_, _)
TupleLess(a, b) ==
    IF Len(a) = 0 THEN FALSE
    ELSE IF a[1] # b[1] THEN a[1] < b[1]
    ELSE TupleLess(Tail(a), Tail(b))

\* Python sorted(s, key=...) / list.sort(key=...): a stable sort.  keys[i]
\* is the key (an integer tuple) of s[i]; equal keys keep their input order.
StableSort(s, keys) ==
    LET n == Len(s)
        pos(i) == Cardinality({j \in 1..n : TupleLess(keys[j], keys[i])})
                  + Cardinality({j \in 1..i : keys[j] = keys[i]})
    IN  [p \in 1..n |-> s[CHOOSE i \in 1..n : pos(i) = p]]

SeqMin(s) == CHOOSE v \in {s[i] : i \in 1..Len(s)} :
                 \A i \in 1..Len(s) : v <= s[i]
SeqMax(s) == CHOOSE v \in {s[i] : i \in 1..Len(s)} :
                 \A i \in 1..Len(s) : v >= s[i]

---------------------------------------------------------------------------
(* Data model                                                              *)

\* TextLine.  id stands for the Python object's identity; column is the
\* _column attribute set by _assign_columns_to_lines, 0 while it is absent.
\* font_name, is_bold, is_italic and color are read by none of the modelled
\* functions and are left out.
TextLine(id, text, bbox, font_size) ==
    [id |-> id, text |-> text, bbox |-> bbox, font_size |-> font_size,
     column |-> 0]

ColumnInfo(n, b, g) ==
    [num_columns |-> n, boundaries |-> b, gutter_positions |-> g]

NoColumnInfo == ColumnInfo(0, <<>>, <<>>)

---------------------------------------------------------------------------
(* Program constants (class attributes of PDFExtractor)                    *)

LINE_SPACING_THRESHOLD_X10 == 12
COLUMN_GAP_THRESHOLD == 20
HEADER_REGION_PCT_X100 == 6
FOOTER_REGION_PCT_X100 == 6
COLUMN_DETECTION_BINS == 50
MIN_GUTTER_WIDTH == 15

---------------------------------------------------------------------------
(* _detect_columns                                                         *)

\* Pass 1: bin_counts.  bin_width = page_width / num_bins, so
\* int(x / bin_width) = int(x * num_bins / page_width).
start_bin(line, W) ==
    Max2(0, Trunc(line.bbox[1] * COLUMN_DETECTION_BINS, W))
end_bin(line, W) ==
    Min2(COLUMN_DETECTION_BINS - 1, Trunc(line.bbox[3] * COLUMN_DETECTION_BINS, W))

bin_counts(ls, W) ==
    [b \in 0..(COLUMN_DETECTION_BINS - 1) |->
        Cardinality({i \in 1..Len(ls) :
                        start_bin(ls[i], W) <= b /\ b <= end_bin(ls[i], W)})]

\* sum(bin_counts[lo:hi]) with Python slice bounds already clamped.
SliceSum(counts, lo, hi) ==
    LET RECURSIVE go(_)
        go(i) == IF i >= hi THEN 0 ELSE counts[i] + go(i + 1)
    IN  go(lo)

\* The low-density regions the while loop of pass 2 walks over: maximal runs
\* of bins with bin_counts <= 1, as <<gutter_start, gutter_end>> (end
\* exclusive), left to right.
LowRuns(counts) ==
    LET N == COLUMN_DETECTION_BINS
        low(i) == counts[i] <= 1
        RECURSIVE runEnd(_)
        runEnd(i) == IF i < N /\ low(i) THEN runEnd(i + 1) ELSE i
        RECURSIVE walk(_)
        walk(i) == IF i >= N THEN <<>>
                   ELSE IF low(i) THEN <<<<i, runEnd(i)>>>> \o walk(runEnd(i))
                   ELSE walk(i + 1)
    IN  walk(0)

\* min_content_threshold = max(3, len(lines) * 0.02); c >= it.
ReachesContentThreshold(c, n) == c >= 3 /\ c * 100 >= n * 2

\* Mutant of GutterOf: the gutter centre is taken at the run's left edge
\* (gutter_start * bin_width) instead of its midpoint.
GutterOf_left_edge(run, counts, W) ==
    LET N == COLUMN_DETECTION_BINS
        gs == run[1]
        ge == run[2]
    IN  [center |-> (gs * W) \div N,
         start |-> (gs * W) \div N,
         end |-> (ge * W) \div N,
         width |-> ((ge - gs) * W) \div N,
         left_content |-> SliceSum(counts, Max2(0, gs - 5), gs),
         right_content |-> SliceSum(counts, ge, Min2(N, ge + 5))]

\* The gutter record of one low-density run.  center, start, end and width
\* are lengths: (gutter_start + gutter_end) / 2 * bin_width etc.
GutterOf(run, counts, W) ==
    LET N == COLUMN_DETECTION_BINS
        gs == run[1]
        ge == run[2]
    IN  [center |-> ((gs + ge) * W) \div (2 * N),
         start |-> (gs * W) \div N,
         end |-> (ge * W) \div N,
         width |-> ((ge - gs) * W) \div N,
         left_content |-> SliceSum(counts, Max2(0, gs - 5), gs),
         right_content |-> SliceSum(counts, ge, Min2(N, ge + 5))]

\* Pass 2: potential_gutters.
potential_gutters(ls, W) ==
    LET counts == bin_counts(ls, W)
        runs == LowRuns(counts)
        all == [k \in 1..Len(runs) |-> GutterOf(runs[k], counts, W)]
        keep(g) == /\ ReachesContentThreshold(g.left_content, Len(ls))
                   /\ ReachesContentThreshold(g.right_content, Len(ls))
                   /\ g.width >= Pt(MIN_GUTTER_WIDTH)
    IN  SelectSeq(all, keep)

\* Pass 3: a text line crosses the gutter centre (5 pt tolerance).
crosses_gutter(ls, gutter_center) ==
    \E i \in 1..Len(ls) :
        /\ ls[i].bbox[1] + Pt(5) < gutter_center
        /\ gutter_center < ls[i].bbox[3] - Pt(5)

\* Mutant of validated_gutters: every low-density run at least
\* MIN_GUTTER_WIDTH wide counts as a gutter, whether or not content flanks
\* it or a line crosses it.
validated_gutters_unchecked(ls, W) ==
    LET counts == bin_counts(ls, W)
        runs == LowRuns(counts)
        all == [k \in 1..Len(runs) |-> GutterOf(runs[k], counts, W)]
        wide(g) == g.width >= Pt(MIN_GUTTER_WIDTH)
        kept == SelectSeq(all, wide)
    IN  [k \in 1..Len(kept) |-> kept[k].center]

validated_gutters(ls, W) ==
    LET pg == potential_gutters(ls, W)
        ok(g) == ~crosses_gutter(ls, g.center)
        kept == SelectSeq(pg, ok)
    IN  [k \in 1..Len(kept) |-> kept[k].center]

\* Pass 4: merge nearby gutters (the loop over sorted(validated_gutters)).
RECURSIVE MergeLoop(_, _)
MergeLoop(gs, merged) ==
    IF Len(gs) = 0 THEN merged
    ELSE LET g == Head(gs)
             n == Len(merged)
         IN  IF n = 0 \/ g - merged[n] > Pt(COLUMN_GAP_THRESHOLD)
             THEN MergeLoop(Tail(gs), Append(merged, g))
             ELSE MergeLoop(Tail(gs),
                            [merged EXCEPT ![n] = (merged[n] + g) \div 2])

merged_gutters(ls, W) ==
    LET v == validated_gutters(ls, W)
        keys == [k \in 1..Len(v) |-> <<v[k]>>]
    IN  MergeLoop(StableSort(v, keys), <<>>)

\* Mutant of column_boundaries: the first column starts at the page edge
\* (prev_x = 0) instead of content_left.
column_boundaries_from_page_edge(content_left, content_right, gutters) ==
    LET n == Len(gutters)
    IN  [k \in 1..(n + 1) |->
            << IF k = 1 THEN 0 ELSE gutters[k - 1],
               IF k = n + 1 THEN content_right ELSE gutters[k] >>]

\* boundaries before the width validation: content_left, the gutters,
\* content_right.
column_boundaries(content_left, content_right, gutters) ==
    LET n == Len(gutters)
    IN  [k \in 1..(n + 1) |->
            << IF k = 1 THEN content_left ELSE gutters[k - 1],
               IF k = n + 1 THEN content_right ELSE gutters[k] >>]

\* The boundary is kept when col_width >= content_width * 0.15.
wide_enough(b, content_width) == (b[2] - b[1]) * 100 >= content_width * 15

\* Mutant of valid_boundaries: no boundary is rejected for its width.
valid_boundaries_unfiltered(boundaries, content_width) == boundaries

valid_boundaries(boundaries, content_width) ==
    LET ok(b) == wide_enough(b, content_width)
    IN  SelectSeq(boundaries, ok)

\* valid_gutters: merged_gutters[i] for every kept boundary i (0-based) with
\* i < len(merged_gutters).
valid_gutters(boundaries, gutters, content_width) ==
    LET idx == SelectSeq([k \in 1..Len(gutters) |-> k],
                         LAMBDA k : wide_enough(boundaries[k], content_width))
    IN  [k \in 1..Len(idx) |-> gutters[idx[k]]]

detect_columns(ls, W) ==
    IF Len(ls) = 0 THEN ColumnInfo(1, << <<0, W>> >>, <<>>)
    ELSE
    LET x_left_positions == [i \in 1..Len(ls) |-> ls[i].bbox[1]]
        x_right_positions == [i \in 1..Len(ls) |-> ls[i].bbox[3]]
        margin_left == SeqMin(x_left_positions)
        margin_right == W - SeqMax(x_right_positions)
        content_left == margin_left
        content_right == W - margin_right
        content_width == content_right - content_left
        merged == merged_gutters(ls, W)
        boundaries == column_boundaries(content_left, content_right, merged)
        vb == valid_boundaries(boundaries, content_width)
        vg == valid_gutters(boundaries, merged, content_width)
        single == ColumnInfo(1, << <<content_left, content_right>> >>, <<>>)
    IN  IF content_width <= 0 THEN ColumnInfo(1, << <<0, W>> >>, <<>>)
        ELSE IF Len(merged) = 0 THEN single
        ELSE IF Len(vb) <= 1 THEN single
        ELSE ColumnInfo(Len(vb), vb, vg)

---------------------------------------------------------------------------
(* _assign_columns_to_lines                                                *)

\* The column of a line: col_idx + 1 of the first boundary holding the
\* line's horizontal centre, 1 when none does (the for ... else branch).
\* center_x = (x0 + x1) / 2 is compared doubled.
line_column_of(line, boundaries) ==
    LET hits == {k \in 1..Len(boundaries) :
                    /\ 2 * boundaries[k][1] <= line.bbox[1] + line.bbox[3]
                    /\ line.bbox[1] + line.bbox[3] <= 2 * boundaries[k][2]}
    IN  IF hits = {} THEN 1
        ELSE CHOOSE k \in hits : \A j \in hits : k <= j

assign_columns_to_lines(ls, ci) ==
    IF ci.num_columns = 1 THEN ls
    ELSE [i \in 1..Len(ls) |->
            [ls[i] EXCEPT !.column = line_column_of(ls[i], ci.boundaries)]]

---------------------------------------------------------------------------
(* _group_lines_into_blocks, _create_block, _mark_headers_footers          *)

\* getattr(line, '_column', 1)
GetColumn(line) == IF line.column = 0 THEN 1 ELSE line.column

TextBlock(ls, bbox, column) ==
    [lines |-> ls, bbox |-> bbox, column |-> column,
     is_header |-> FALSE, is_footer |-> FALSE]

create_block(ls, column) ==
    TextBlock(ls,
              << SeqMin([i \in 1..Len(ls) |-> ls[i].bbox[1]]),
                 SeqMin([i \in 1..Len(ls) |-> ls[i].bbox[2]]),
                 SeqMax([i \in 1..Len(ls) |-> ls[i].bbox[3]]),
                 SeqMax([i \in 1..Len(ls) |-> ls[i].bbox[4]]) >>,
              column)

\* Mutant of sort_lines: the lines are sorted by column only.
sort_lines_by_column(ls) ==
    StableSort(ls, [i \in 1..Len(ls) |-> <<GetColumn(ls[i])>>])

\* sorted(lines, key=sort_key) with sort_key = (col, y0, x0).
sort_lines(ls) ==
    StableSort(ls, [i \in 1..Len(ls) |->
                      <<GetColumn(ls[i]), ls[i].bbox[2], ls[i].bbox[1]>>])

\* Characters.  A text is a sequence of one-character strings; the bullet
\* glyphs outside ASCII are written by their code points.
Whitespace == {" "}
Digits == {"0", "1", "2", "3", "4", "5", "6", "7", "8", "9"}
Letters == {"a", "b", "c", "d", "e", "f", "g", "h", "i", "j", "k", "l", "m",
            "n", "o", "p", "q", "r", "s", "t", "u", "v", "w", "x", "y", "z",
            "A", "B", "C", "D", "E", "F", "G", "H", "I", "J", "K", "L", "M",
            "N", "O", "P", "Q", "R", "S", "T", "U", "V", "W", "X", "Y", "Z"}
BulletChars == {"U+2022", "U+25CF", "U+25CB", "U+25A0", "U+25A1", "U+25AA",
                "U+25AB", "-", "U+2013", "U+2014", "*", "+", ">"}

\* str.strip()
RECURSIVE LStrip(_)
LStrip(t) == IF Len(t) > 0 /\ Head(t) \in Whitespace THEN LStrip(Tail(t)) ELSE t
RECURSIVE RStrip(_)
RStrip(t) == IF Len(t) > 0 /\ t[Len(t)] \in Whitespace
             THEN RStrip(SubSeq(t, 1, Len(t) - 1)) ELSE t
Strip(t) == RStrip(LStrip(t))

\* The list-item test of the grouping loop on line.text.
is_list_item(text) ==
    LET line_text == Strip(text)
    IN  IF Len(line_text) = 0 THEN FALSE
        ELSE IF line_text[1] \in BulletChars THEN TRUE
        ELSE IF Len(line_text) > 2
             THEN \/ line_text[1] \in Digits /\ line_text[2] \in {".", ")", ":"}
                  \/ line_text[1] \in Letters /\ line_text[2] \in {".", ")"}
             ELSE FALSE

\* col_width of the X alignment test: the width of the line's column on a
\* multi-column page, 500 otherwise.
col_width_of(line_column, ci) ==
    IF ci.num_columns > 1 /\ line_column <= Len(ci.boundaries)
    THEN ci.boundaries[line_column][2] - ci.boundaries[line_column][1]
    ELSE Pt(500)

\* start_new_block for `line` following prev_line in a block of column
\* current_column.  avg_font_size = (pf + lf) / 2; the float comparisons
\*   vertical_gap > avg * 1.2      20 * gap > 12 * (pf + lf)
\*   ratio > 1.3, ratio < 0.7      10 * lf > 13 * pf, 10 * lf < 7 * pf
\*   x_diff > col_width * 0.2      10 * x_diff > 2 * col_width
\*   x_diff < col_width * 0.15     100 * x_diff < 15 * col_width
\*   vertical_gap > avg * 0.3      20 * gap > 3 * (pf + lf)
\*   vertical_gap > avg * 0.5      20 * gap > 5 * (pf + lf)
start_new_block(prev_line, line, current_column, ci) ==
    LET line_column == GetColumn(line)
        vertical_gap == line.bbox[2] - prev_line.bbox[4]
        pf == prev_line.font_size
        lf == line.font_size
        ratio_out == IF pf > 0 THEN 10 * lf > 13 * pf \/ 10 * lf < 7 * pf
                     ELSE FALSE
        x_diff == IF line.bbox[1] >= prev_line.bbox[1]
                  THEN line.bbox[1] - prev_line.bbox[1]
                  ELSE prev_line.bbox[1] - line.bbox[1]
        col_width == col_width_of(line_column, ci)
        is_indented == x_diff > Pt(20) /\ 100 * x_diff < 15 * col_width
        is_significantly_different == 10 * x_diff > 2 * col_width
    IN  IF line_column # current_column THEN TRUE
        ELSE IF 20 * vertical_gap > LINE_SPACING_THRESHOLD_X10 * (pf + lf) THEN TRUE
        ELSE IF ratio_out /\ lf > pf THEN TRUE
        ELSE IF is_significantly_different /\ 20 * vertical_gap > 3 * (pf + lf)
             THEN TRUE
        ELSE IF is_indented /\ 20 * vertical_gap > 5 * (pf + lf) THEN TRUE
        ELSE is_list_item(line.text)

\* Mutant of append_block: the finished block is put in front of the list.
append_block_in_front(blocks, ls, column) ==
    <<create_block(ls, column)>> \o blocks

\* blocks.append(self._create_block(current_block_lines, current_column))
append_block(blocks, ls, column) ==
    Append(blocks, create_block(ls, column))

\* Mutant of finish_blocks: the last block is forgotten.
finish_blocks_forgotten(blocks, current_block_lines, current_column) ==
    blocks

\* After the loop: "Don't forget the last block".
finish_blocks(blocks, current_block_lines, current_column) ==
    IF Len(current_block_lines) > 0
    THEN append_block(blocks, current_block_lines, current_column)
    ELSE blocks

\* The loop over sorted_lines, from line i on.
RECURSIVE GroupLoop(_, _, _, _, _, _)
GroupLoop(sl, i, blocks, current_block_lines, current_column, ci) ==
    IF i > Len(sl)
    THEN finish_blocks(blocks, current_block_lines, current_column)
    ELSE LET line == sl[i]
         IN  IF Len(current_block_lines) = 0
             THEN GroupLoop(sl, i + 1, blocks, <<line>>, GetColumn(line), ci)
             ELSE IF start_new_block(current_block_lines[Len(current_block_lines)],
                                     line, current_column, ci)
             THEN GroupLoop(sl, i + 1,
                            IF Len(current_block_lines) > 0
                            THEN append_block(blocks, current_block_lines, current_column)
                            ELSE blocks,
                            <<line>>, GetColumn(line), ci)
             ELSE GroupLoop(sl, i + 1, blocks, Append(current_block_lines, line),
                            current_column, ci)

group_lines_into_blocks(ls, H, ci) ==
    IF Len(ls) = 0 THEN <<>>
    ELSE GroupLoop(sort_lines(ls), 1, <<>>, <<>>, 0, ci)

\* header_threshold = page_height * 0.06,
\* footer_threshold = page_height * (1 - 0.06).
mark_block(block, H) ==
    IF 100 * block.bbox[4] < HEADER_REGION_PCT_X100 * H
    THEN [block EXCEPT !.is_header = TRUE]
    ELSE IF 100 * block.bbox[2] > (100 - FOOTER_REGION_PCT_X100) * H
    THEN [block EXCEPT !.is_footer = TRUE]
    ELSE block

mark_headers_footers(blocks, H) ==
    [k \in 1..Len(blocks) |-> mark_block(blocks[k], H)]

---------------------------------------------------------------------------
(* _is_inside_any_bbox and step 3 of _extract_page                         *)

\* The centre of inner lies in one of the outer boxes (compared doubled).
is_inside_any_bbox(inner, outers) ==
    \E k \in 1..Len(outers) :
        /\ 2 * outers[k][1] <= inner[1] + inner[3]
        /\ inner[1] + inner[3] <= 2 * outers[k][3]
        /\ 2 * outers[k][2] <= inner[2] + inner[4]
        /\ inner[2] + inner[4] <= 2 * outers[k][4]

lines_outside_tables(ls, tbls) ==
    LET table_bboxes == [k \in 1..Len(tbls) |-> tbls[k].bbox]
    IN  SelectSeq(ls, LAMBDA l : ~is_inside_any_bbox(l.bbox, table_bboxes))

---------------------------------------------------------------------------
(* _create_reading_order                                                   *)

\* ImageInfo and TableInfo.  id stands for the object's identity; the image
\* data and the table cells are not read by the ordering and are left out.
ImageInfo(id, bbox) ==
    [id |-> id, bbox |-> bbox, width |-> bbox[3] - bbox[1],
     height |-> bbox[4] - bbox[2]]

TableInfo(id, bbox) == [id |-> id, bbox |-> bbox]

PageElement(element_type, element, bbox, column) ==
    [element_type |-> element_type, element |-> element, bbox |-> bbox,
     column |-> column]

\* y_position of a TextBlock, ImageInfo, TableInfo or PageElement.
y_position(x) == x.bbox[2]

\* list.sort(key=lambda x: x.y_position) and sort(key=lambda x: x[1]).
sort_by_y(items) ==
    StableSort(items, [k \in 1..Len(items) |-> <<y_position(items[k])>>])

\* Mutant of get_column: the 0-based index col_idx is returned.
get_column_zero_based(bbox, ci) ==
    LET hits == {k \in 1..Len(ci.boundaries) :
                    /\ 2 * ci.boundaries[k][1] <= bbox[1] + bbox[3]
                    /\ bbox[1] + bbox[3] <= 2 * ci.boundaries[k][2]}
    IN  IF hits = {} THEN 0
        ELSE (CHOOSE k \in hits : \A j \in hits : k <= j) - 1

\* get_column: col_idx + 1 of the first boundary holding the box's
\* horizontal centre, 0 (full width) when none does.
get_column(bbox, ci) ==
    LET hits == {k \in 1..Len(ci.boundaries) :
                    /\ 2 * ci.boundaries[k][1] <= bbox[1] + bbox[3]
                    /\ bbox[1] + bbox[3] <= 2 * ci.boundaries[k][2]}
    IN  IF hits = {} THEN 0
        ELSE CHOOSE k \in hits : \A j \in hits : k <= j

\* An entry (item_type, y_pos, item) of all_content, column_content[col] or
\* full_width_items: col is the key of column_content it is filed under,
\* full is TRUE when it is filed in full_width_items instead.
Item(item_type, item, col, full) ==
    [item_type |-> item_type, bbox |-> item.bbox, item |-> item, col |-> col,
     full |-> full]

\* width / page_width > 0.6
is_wide(width, W) == 10 * width > 6 * W

\* The items of the body in the order the three for loops file them: the
\* content blocks, the images, the tables.
filed_items(content, imgs, tbls, ci, W) ==
    [k \in 1..Len(content) |->
        Item("text", content[k], content[k].column, content[k].column = 0)]
    \o [k \in 1..Len(imgs) |->
        Item("image", imgs[k], get_column(imgs[k].bbox, ci),
             is_wide(imgs[k].width, W))]
    \o [k \in 1..Len(tbls) |->
        Item("table", tbls[k], get_column(tbls[k].bbox, ci),
             is_wide(tbls[k].bbox[3] - tbls[k].bbox[1], W))]

\* elements.append(PageElement(...)) for every item of a list.
as_elements(items, column) ==
    [k \in 1..Len(items) |->
        PageElement(items[k].item_type, items[k].item, items[k].bbox, column)]

block_elements(blocks) ==
    [k \in 1..Len(blocks) |-> PageElement("text", blocks[k], blocks[k].bbox, 0)]

\* Single column: all_content sorted by y, every element in column 0.
single_column_body(content, imgs, tbls) ==
    LET all_content ==
            [k \in 1..Len(content) |-> Item("text", content[k], 0, FALSE)]
            \o [k \in 1..Len(imgs) |-> Item("image", imgs[k], 0, FALSE)]
            \o [k \in 1..Len(tbls) |-> Item("table", tbls[k], 0, FALSE)]
    IN  as_elements(sort_by_y(all_content), 0)

\* The column content emitted in one round of the interleave loop: for col
\* in sorted(column_content.keys()), the items with current_y <= y < fw_y.
\* last is TRUE for the round of fw_y = float('inf').
column_round(column_content, cols, current_y, fw_y, last) ==
    LET RECURSIVE go(_)
        go(c) ==
            IF c > Len(cols) THEN <<>>
            ELSE as_elements(
                   SelectSeq(column_content[cols[c]],
                             LAMBDA it : /\ current_y <= y_position(it)
                                         /\ (last \/ y_position(it) < fw_y)),
                   cols[c]) \o go(c + 1)
    IN  go(1)

\* The full-width items emitted after one round: those with y_pos == fw_y.
full_width_round(full_width_items, fw_y) ==
    as_elements(SelectSeq(full_width_items, LAMBDA it : y_position(it) = fw_y), 0)

\* Mutant of interleave: the full-width items are deferred to the end of
\* the page, after all column content.
interleave_deferred(column_content, cols, full_width_items) ==
    column_round(column_content, cols, 0, 0, TRUE)
    \o as_elements(full_width_items, 0)

\* The interleave loop: for fw_y in fw_positions + [float('inf')].
interleave(column_content, cols, full_width_items) ==
    LET fw_positions == [k \in 1..Len(full_width_items) |->
                            y_position(full_width_items[k])]
        n == Len(fw_positions)
        RECURSIVE loop(_, _)
        loop(k, current_y) ==
            IF k > n
            THEN column_round(column_content, cols, current_y, 0, TRUE)
            ELSE column_round(column_content, cols, current_y, fw_positions[k], FALSE)
                 \o full_width_round(full_width_items, fw_positions[k])
                 \o loop(k + 1, fw_positions[k])
    IN  loop(1, 0)

\* Multi-column: file the items by column, sort each list by y, interleave.
multi_column_body(content, imgs, tbls, ci, W) ==
    LET filed == filed_items(content, imgs, tbls, ci, W)
        full_width_items == sort_by_y(SelectSeq(filed, LAMBDA it : it.full))
        in_columns == SelectSeq(filed, LAMBDA it : ~it.full)
        keys == {in_columns[k].col : k \in 1..Len(in_columns)}
        column_content ==
            [c \in keys |-> sort_by_y(SelectSeq(in_columns, LAMBDA it : it.col = c))]
        keyseq == [k \in 1..Cardinality(keys) |->
                      CHOOSE c \in keys : Cardinality({d \in keys : d < c}) = k - 1]
    IN  interleave(column_content, keyseq, full_width_items)

\* Mutant of sorted_headers: the headers are emitted in list order.
sorted_headers_unsorted(blocks) ==
    SelectSeq(blocks, LAMBDA b : b.is_header)

\* headers = [b for b in text_blocks if b.is_header]; headers.sort(by y)
sorted_headers(blocks) ==
    sort_by_y(SelectSeq(blocks, LAMBDA b : b.is_header))

sorted_footers(blocks) ==
    sort_by_y(SelectSeq(blocks, LAMBDA b : b.is_footer))

create_reading_order(blocks, imgs, tbls, ci, W) ==
    LET content == SelectSeq(blocks, LAMBDA b : ~b.is_header /\ ~b.is_footer)
    IN  block_elements(sorted_headers(blocks))
        \o (IF ci.num_columns = 1
            THEN single_column_body(content, imgs, tbls)
            ELSE multi_column_body(content, imgs, tbls, ci, W))
        \o block_elements(sorted_footers(blocks))

---------------------------------------------------------------------------
(* DOCXGenerator (src/pdf_converter/docx_generator.py): text blocks        *)

\* Spacing constant, in points.
MAX_PARAGRAPH_SPACING == 24

\* Spacings are kept in 1/240 point: a length of g model units (1/8 point)
\* times 0.3, 0.4, 0.5 and 1/3 is 9g, 12g, 15g and 10g of them.
Sp(n) == n * 240

\* What identifies the element an item of the body was written for: its
\* type and the identities of its lines, or of the image or table.
ElementKey(element_type, item) ==
    [type |-> element_type,
     ids |-> IF element_type = "text"
             THEN [k \in 1..Len(item.lines) |-> item.lines[k].id]
             ELSE <<item.id>>]

\* str.endswith('-')
EndsWithHyphen(t) == Len(t) > 0 /\ t[Len(t)] = "-"

\* re.match(r'^\d+[\.\)]\s', text)
matches_number_marker(t) ==
    \E k \in 1..Len(t) :
        /\ \A j \in 1..k : t[j] \in Digits
        /\ k + 2 <= Len(t)
        /\ t[k + 1] \in {".", ")"}
        /\ t[k + 2] \in Whitespace

\* DOCXGenerator._should_flow_text
should_flow_text(block) ==
    LET n == Len(block.lines)
        line_widths == [k \in 1..n |-> block.lines[k].bbox[3] - block.lines[k].bbox[1]]
    IN  IF n < 2 THEN FALSE
        ELSE LET max_width == SeqMax(line_widths)
                 full_width_lines ==
                     Cardinality({k \in 1..(n - 1) : 100 * line_widths[k] > 85 * max_width})
                 first_line_text == Strip(block.lines[1].text)
             IN  IF max_width = 0 THEN FALSE
                 ELSE IF n > 2 /\ 10 * full_width_lines >= 6 * (n - 1)
                 THEN IF Len(first_line_text) > 0 /\ first_line_text[1] \in BulletChars
                      THEN FALSE
                      ELSE IF matches_number_marker(first_line_text) THEN FALSE
                      ELSE TRUE
                 ELSE FALSE

\* Mutant of line_runs: the hyphen is cut from the final line as well.
line_runs_cut_final(block, i, should_flow) ==
    LET separator ==
            IF i = 1 THEN <<>>
            ELSE IF should_flow
                 THEN IF EndsWithHyphen(RStrip(block.lines[i - 1].text))
                      THEN <<>> ELSE << <<" ">> >>
                 ELSE << <<"\n">> >>
        stripped == RStrip(block.lines[i].text)
        line_text == IF should_flow /\ EndsWithHyphen(stripped)
                     THEN SubSeq(stripped, 1, Len(stripped) - 1)
                     ELSE stripped
    IN  Append(separator, line_text)

\* The runs one pass of the loop over block.lines adds to the paragraph:
\* the separator run, if any, then the run of the line's text.
line_runs(block, i, should_flow) ==
    LET separator ==
            IF i = 1 THEN <<>>
            ELSE IF should_flow
                 THEN IF EndsWithHyphen(RStrip(block.lines[i - 1].text))
                      THEN <<>> ELSE << <<" ">> >>
                 ELSE << <<"\n">> >>
        stripped == RStrip(block.lines[i].text)
        line_text == IF should_flow /\ EndsWithHyphen(stripped)
                        /\ i < Len(block.lines)
                     THEN SubSeq(stripped, 1, Len(stripped) - 1)
                     ELSE stripped
    IN  Append(separator, line_text)

RECURSIVE block_runs(_, _, _)
block_runs(block, i, should_flow) ==
    IF i > Len(block.lines) THEN <<>>
    ELSE line_runs(block, i, should_flow) \o block_runs(block, i + 1, should_flow)

\* _add_text_block and _add_text_block_to_cell: one paragraph whose runs
\* are the lines' texts and their separators (run and paragraph formatting
\* are left out).  where is "body" or "cell".
add_text_block(block, where) ==
    [kind |-> "paragraph", where |-> where, key |-> ElementKey("text", block),
     runs |-> block_runs(block, 1, should_flow_text(block))]

\* TextBlock.text: "\n".join(line.text for line in self.lines)
RECURSIVE block_text(_)
block_text(ls) ==
    IF Len(ls) = 0 THEN <<>>
    ELSE IF Len(ls) = 1 THEN ls[1].text
    ELSE ls[1].text \o <<"\n">> \o block_text(Tail(ls))

\* _skip_header_footer_block: header and footer blocks that are only a
\* page number are not written.
skip_header_footer_block(block) ==
    IF ~block.is_header /\ ~block.is_footer THEN FALSE
    ELSE LET text == Strip(block_text(block.lines))
         IN  IF Len(text) = 0 \/ Len(text) > 10 THEN FALSE
             ELSE \A k \in 1..Len(text) : text[k] \in Digits

\* TextBlock.primary_font_size: the most frequent font size of the lines
\* (one of the most frequent ones when several are).
primary_font_size(block) ==
    IF Len(block.lines) = 0 THEN Pt(11)
    ELSE LET count(v) == Cardinality({k \in 1..Len(block.lines) :
                                         block.lines[k].font_size = v})
         IN  CHOOSE v \in {block.lines[k].font_size : k \in 1..Len(block.lines)} :
                 \A k \in 1..Len(block.lines) :
                     count(v) >= count(block.lines[k].font_size)

---------------------------------------------------------------------------
(* DOCXGenerator: pages                                                    *)

PageContent(page_num, width, height, els, ci, blocks, imgs, tbls) ==
    [page_num |-> page_num, width |-> width, height |-> height,
     elements |-> els, column_info |-> ci, text_blocks |-> blocks,
     images |-> imgs, tables |-> tbls]

\* _add_vertical_space: a spacer paragraph, none under 2 points, its space
\* after clamped to [2, MAX_PARAGRAPH_SPACING] points.
add_vertical_space(points) ==
    IF points < Sp(2) THEN <<>>
    ELSE << [kind |-> "spacer", where |-> "body",
             space_after |-> Min2(Max2(points, Sp(2)), Sp(MAX_PARAGRAPH_SPACING))] >>

\* _add_image and _add_image_to_cell for an image with data: a centred
\* paragraph, holding the picture unless add_picture raises (the image is
\* in bad), in which case the error is recorded.
add_image(img, where, bad) ==
    [kind |-> "picture", where |-> where, key |-> ElementKey("image", img),
     inserted |-> img.id \notin bad]

\* _add_table for a table with cells.
add_table(table_info) ==
    [kind |-> "table", where |-> "body", key |-> ElementKey("table", table_info)]

\* The branch on elem.element_type that writes one element to the body.
write_element(element_type, item, bad) ==
    IF element_type = "text"
    THEN IF skip_header_footer_block(item) THEN <<>>
         ELSE << add_text_block(item, "body") >>
    ELSE IF element_type = "image" THEN << add_image(item, "body", bad) >>
    ELSE << add_table(item) >>

\* The spacing _generate_singlecolumn_page computes before an element, in
\* 1/240 point: gap is y_position - prev_y, sum the two font sizes added.
singlecolumn_spacing(gap, sum, type_changes) ==
    IF gap <= 0 THEN 0
    ELSE LET by_gap ==
                 IF 4 * gap < sum THEN 0
                 ELSE IF 4 * gap < 3 * sum THEN Min2(9 * gap, Sp(6))
                 ELSE IF 2 * gap < 3 * sum THEN Min2(15 * gap, Sp(12))
                 ELSE Min2(12 * gap, Sp(MAX_PARAGRAPH_SPACING))
         IN  IF type_changes THEN Max2(by_gap, Sp(6)) ELSE by_gap

\* The loop of _generate_singlecolumn_page from element k on.
RECURSIVE singlecolumn_loop(_, _, _, _, _, _)
singlecolumn_loop(els, k, prev_y, prev_elem_type, prev_font_size, bad) ==
    IF k > Len(els) THEN <<>>
    ELSE LET elem == els[k]
             curr_font_size == IF elem.element_type = "text"
                               THEN primary_font_size(elem.element) ELSE Pt(11)
             spacing_pts ==
                 IF prev_y > 0
                 THEN singlecolumn_spacing(y_position(elem) - prev_y,
                                           prev_font_size + curr_font_size,
                                           prev_elem_type # elem.element_type)
                 ELSE 0
             next_font_size == IF elem.element_type = "text"
                               THEN primary_font_size(elem.element)
                               ELSE IF elem.element_type = "image" THEN Pt(11)
                               ELSE Pt(10)
         IN  (IF spacing_pts > Sp(2) THEN add_vertical_space(spacing_pts) ELSE <<>>)
             \o write_element(elem.element_type, elem.element, bad)
             \o singlecolumn_loop(els, k + 1, elem.bbox[4], elem.element_type,
                                  next_font_size, bad)

generate_singlecolumn_page(page, bad) ==
    singlecolumn_loop(page.elements, 1, 0, "None", Pt(11), bad)

\* The loop of _render_column_chunk over one column's elements: a spacing
\* paragraph after a gap of more than 10 points, text blocks and images;
\* nothing is written for a table.
RECURSIVE cell_loop(_, _, _, _)
cell_loop(els, k, prev_y, bad) ==
    IF k > Len(els) THEN <<>>
    ELSE LET elem == els[k]
             gap == y_position(elem) - prev_y
             spacing_pts == Min2(9 * gap, Sp(12))
         IN  (IF prev_y > 0 /\ gap > Pt(10) /\ spacing_pts > Sp(2)
              THEN << [kind |-> "spacer", where |-> "cell",
                       space_after |-> spacing_pts] >>
              ELSE <<>>)
             \o (IF elem.element_type = "text"
                 THEN IF skip_header_footer_block(elem.element) THEN <<>>
                      ELSE << add_text_block(elem.element, "cell") >>
                 ELSE IF elem.element_type = "image"
                 THEN << add_image(elem.element, "cell", bad) >>
                 ELSE <<>>)
             \o cell_loop(els, k + 1, elem.bbox[4], bad)

\* _render_column_chunk: a borderless table of one row and num_columns
\* cells; cell c holds the chunk's elements of column c.
render_column_chunk(chunk_elements, page, bad) ==
    << [kind |-> "columns", where |-> "body",
        cells |-> [c \in 1..page.column_info.num_columns |->
                      cell_loop(SelectSeq(chunk_elements, LAMBDA e : e.column = c),
                                1, 0, bad)]] >>

\* chunks.append(current_chunk) unless the chunk holds nothing.
close_chunk(chunks, current) ==
    IF Len(current) > 0
    THEN Append(chunks, [type |-> "columns", elems |-> current])
    ELSE chunks

\* The first loop of _generate_multicolumn_page: the elements cut into
\* chunks, a full-width element (column 0) being a chunk of its own.
RECURSIVE chunk_loop(_, _, _, _)
chunk_loop(els, k, chunks, current) ==
    IF k > Len(els) THEN close_chunk(chunks, current)
    ELSE IF els[k].column = 0
    THEN chunk_loop(els, k + 1,
                    Append(close_chunk(chunks, current),
                           [type |-> "full_width", elems |-> <<els[k]>>]),
                    <<>>)
    ELSE chunk_loop(els, k + 1, chunks, Append(current, els[k]))

\* Mutant of render_chunks: each column element gets a container of its own.
RECURSIVE render_chunks_per_element(_, _, _, _)
render_chunks_per_element(chunks, k, page, bad) ==
    IF k > Len(chunks) THEN <<>>
    ELSE LET chunk == chunks[k]
             RECURSIVE each(_)
             each(j) == IF j > Len(chunk.elems) THEN <<>>
                        ELSE render_column_chunk(<<chunk.elems[j]>>, page, bad)
                             \o each(j + 1)
         IN  (IF chunk.type = "full_width"
              THEN write_element(chunk.elems[1].element_type,
                                 chunk.elems[1].element, bad)
              ELSE each(1))
             \o render_chunks_per_element(chunks, k + 1, page, bad)

\* The second loop of _generate_multicolumn_page: each chunk rendered.
RECURSIVE render_chunks(_, _, _, _)
render_chunks(chunks, k, page, bad) ==
    IF k > Len(chunks) THEN <<>>
    ELSE LET chunk == chunks[k]
         IN  (IF chunk.type = "full_width"
              THEN write_element(chunk.elems[1].element_type,
                                 chunk.elems[1].element, bad)
              ELSE render_column_chunk(chunk.elems, page, bad))
             \o render_chunks(chunks, k + 1, page, bad)

generate_multicolumn_page(page, bad) ==
    render_chunks(chunk_loop(page.elements, 1, <<>>, <<>>), 1, page, bad)

\* The loop of _generate_page_fallback over all_items.
RECURSIVE fallback_loop(_, _, _, _)
fallback_loop(items, k, prev_y, bad) ==
    IF k > Len(items) THEN <<>>
    ELSE LET y_pos == y_position(items[k])
         IN  (IF prev_y > 0 /\ y_pos - prev_y > Pt(15)
              THEN add_vertical_space(Min2(10 * (y_pos - prev_y), Sp(18)))
              ELSE <<>>)
             \o write_element(items[k].item_type, items[k].item, bad)
             \o fallback_loop(items, k + 1, y_pos, bad)

\* _generate_page_fallback: the page's blocks, images and tables by y.
generate_page_fallback(page, bad) ==
    LET all_items ==
            [k \in 1..Len(page.text_blocks) |->
                Item("text", page.text_blocks[k], 0, FALSE)]
            \o [k \in 1..Len(page.images) |-> Item("image", page.images[k], 0, FALSE)]
            \o [k \in 1..Len(page.tables) |-> Item("table", page.tables[k], 0, FALSE)]
    IN  fallback_loop(sort_by_y(all_items), 1, 0, bad)

\* DOCXGenerator._generate_page
generate_page(page, bad) ==
    IF Len(page.elements) = 0 THEN generate_page_fallback(page, bad)
    ELSE IF page.column_info.num_columns > 1
    THEN generate_multicolumn_page(page, bad)
    ELSE generate_singlecolumn_page(page, bad)

\* The paragraphs, pictures, tables and spacers of a list of body items,
\* those inside the cells of column containers included.
RECURSIVE written(_)
written(items) ==
    IF Len(items) = 0 THEN <<>>
    ELSE (IF Head(items).kind = "columns"
          THEN LET RECURSIVE cells_from(_)
                   cells_from(c) ==
                       IF c > Len(Head(items).cells) THEN <<>>
                       ELSE Head(items).cells[c] \o cells_from(c + 1)
               IN  cells_from(1)
          ELSE <<Head(items)>>)
         \o written(Tail(items))

\* The counters and the error list after the items were written.
count_kind(items, kind) ==
    Len(SelectSeq(written(items), LAMBDA it : it.kind = kind))

count_pictures(items, inserted) ==
    Len(SelectSeq(written(items),
                  LAMBDA it : it.kind = "picture" /\ it.inserted = inserted))

image_errors(items) ==
    LET failed == SelectSeq(written(items),
                            LAMBDA it : it.kind = "picture" /\ ~it.inserted)
    IN  [k \in 1..Len(failed) |->
            IF failed[k].where = "cell" THEN "Cell image error" ELSE "Image error"]

---------------------------------------------------------------------------
(* Components at rest                                                      *)

\* No page is being extracted.
NoPage ==
    /\ page_width = 0
    /\ page_height = 0
    /\ lines = <<>>
    /\ column_info = NoColumnInfo
    /\ text_blocks = <<>>
    /\ images = <<>>
    /\ tables = <<>>
    /\ elements = <<>>

\* DOCXGenerator.__init__: no document, counters at 0, no errors.
NoGenerator ==
    /\ doc = <<>>
    /\ text_count = 0
    /\ image_count = 0
    /\ table_count = 0
    /\ errors = <<>>
    /\ page_index = 0
    /\ save_outcome = "not_called"

NoDocument ==
    /\ source = <<>>
    /\ layout_hints = <<>>
    /\ pages = <<>>

NoAnalyzer ==
    /\ analyzer = "none"
    /\ responses = <<>>
    /\ page_layouts = <<>>

\* Only PDFExtractor._extract_page is at work.
OnlyPage == NoGenerator /\ result = <<>> /\ NoDocument /\ NoAnalyzer

---------------------------------------------------------------------------
(* Inputs of the column-detection specification                            *)

MaxLines == 6

PageWidths == {Pt(200), Pt(650)}

\* Horizontal spans <<x0, x1>> of the text lines a page may hold: full
\* columns, ragged and short lines, a narrow middle column, a line across
\* the page.
LineSpans(W) ==
    IF W = Pt(650)
    THEN {<<Pt(50), Pt(250)>>, <<Pt(50), Pt(200)>>, <<Pt(400), Pt(600)>>,
          <<Pt(290), Pt(310)>>, <<Pt(270), Pt(600)>>, <<Pt(50), Pt(600)>>}
    ELSE {<<Pt(0), Pt(40)>>, <<Pt(60), Pt(63)>>, <<Pt(80), Pt(200)>>,
          <<Pt(0), Pt(200)>>}

\* Line k of a page of the detection specification sits at its own y.
SpanLine(id, span) ==
    TextLine(id, <<"T">>,
             <<span[1], Pt(100 + 20 * id), span[2], Pt(112 + 20 * id)>>, Pt(12))

---------------------------------------------------------------------------
(* Actions: the steps of PDFExtractor._extract_page                        *)

Init ==
    /\ pc = "text_lines"
    /\ page_width \in PageWidths
    /\ page_height = Pt(1000)
    /\ lines = <<>>
    /\ column_info = NoColumnInfo
    /\ text_blocks = <<>>
    /\ images = <<>>
    /\ tables = <<>>
    /\ elements = <<>>
    /\ OnlyPage

\* _extract_text_lines appends one more line.  _detect_columns reads the
\* lines only through min, max, counts and \E, so each multiset of spans is
\* enumerated once, in nondecreasing span order.
ExtractSpanLine ==
    /\ pc = "text_lines"
    /\ Len(lines) < MaxLines
    /\ \E span \in LineSpans(page_width) :
          /\ IF Len(lines) = 0 THEN TRUE
             ELSE ~TupleLess(span, <<lines[Len(lines)].bbox[1],
                                     lines[Len(lines)].bbox[3]>>)
          /\ lines' = Append(lines, SpanLine(Len(lines) + 1, span))
    /\ UNCHANGED <<pc, page_width, page_height, column_info, text_blocks,
                   images, tables, elements>>
    /\ UNCHANGED outside_page

\* Steps 3 and 4: the text lines inside a table are dropped, then
\* column_info = self._detect_columns(text_lines, width).
DetectColumns ==
    /\ pc = "text_lines"
    /\ lines' = lines_outside_tables(lines, tables)
    /\ column_info' = detect_columns(lines', page_width)
    /\ pc' = "columns_detected"
    /\ UNCHANGED <<page_width, page_height, text_blocks, images, tables,
                   elements>>
    /\ UNCHANGED outside_page

Next == ExtractSpanLine \/ DetectColumns

Spec == Init /\ [][Next]_vars

---------------------------------------------------------------------------
(* Specification SpecBlocks: one page through steps 1 and 4 to 7 of        *)
(* _extract_page (text lines, columns, assignment, blocks, headers and     *)
(* footers)                                                                *)

MaxPageLines == 3

LineAt(text, x0, y0, x1, y1, size) ==
    [text |-> text, bbox |-> <<Pt(x0), Pt(y0), Pt(x1), Pt(y1)>>,
     font_size |-> Pt(size)]

\* The lines a page may hold on top of its base content: a body line, a
\* numbered list item at the same position, a continuation line, a list
\* item numbered 10, a header (left), a footer (right), a heading in a
\* larger font and an indented line.
BlockLinePool ==
    { LineAt(<<"T">>, 50, 100, 250, 112, 12),
      LineAt(<<"1", ".", " ", "x">>, 50, 100, 250, 112, 12),
      LineAt(<<"T">>, 50, 114, 250, 126, 12),
      LineAt(<<"1", "0", ".", " ", "x">>, 50, 114, 250, 126, 12),
      LineAt(<<"T">>, 50, 20, 250, 32, 12),
      LineAt(<<"T">>, 400, 960, 600, 972, 12),
      LineAt(<<"T">>, 50, 128, 250, 146, 18),
      LineAt(<<"T">>, 100, 120, 250, 132, 12) }

\* Base content of a page: nothing, or two lines in each of two columns.
TwoColumnBody ==
    << TextLine(1, <<"T">>, <<Pt(50), Pt(300), Pt(250), Pt(312)>>, Pt(12)),
       TextLine(2, <<"T">>, <<Pt(50), Pt(314), Pt(250), Pt(326)>>, Pt(12)),
       TextLine(3, <<"T">>, <<Pt(400), Pt(300), Pt(600), Pt(312)>>, Pt(12)),
       TextLine(4, <<"T">>, <<Pt(400), Pt(314), Pt(600), Pt(326)>>, Pt(12)) >>

BasePages == {<<>>, TwoColumnBody}

InitBlocks ==
    /\ pc = "text_lines"
    /\ page_width = Pt(650)
    /\ page_height = Pt(1000)
    /\ lines \in BasePages
    /\ column_info = NoColumnInfo
    /\ text_blocks = <<>>
    /\ images = <<>>
    /\ tables = <<>>
    /\ elements = <<>>
    /\ OnlyPage

\* Number of lines extracted on top of the base content.
ExtraLines == IF Len(lines) >= 4 /\ SubSeq(lines, 1, 4) = TwoColumnBody
              THEN Len(lines) - 4 ELSE Len(lines)

\* Step 1: _extract_text_lines appends one more line, in any order.
ExtractTextLine ==
    /\ pc = "text_lines"
    /\ ExtraLines < MaxPageLines
    /\ \E t \in BlockLinePool :
          lines' = Append(lines, TextLine(Len(lines) + 1, t.text, t.bbox, t.font_size))
    /\ UNCHANGED <<pc, page_width, page_height, column_info, text_blocks,
                   images, tables, elements>>
    /\ UNCHANGED outside_page

\* Step 5: text_lines = self._assign_columns_to_lines(text_lines, column_info).
AssignColumns ==
    /\ pc = "columns_detected"
    /\ lines' = assign_columns_to_lines(lines, column_info)
    /\ pc' = "columns_assigned"
    /\ UNCHANGED <<page_width, page_height, column_info, text_blocks, images,
                   tables, elements>>
    /\ UNCHANGED outside_page

\* Step 6: text_blocks = self._group_lines_into_blocks(...).
GroupLines ==
    /\ pc = "columns_assigned"
    /\ text_blocks' = group_lines_into_blocks(lines, page_height, column_info)
    /\ pc' = "grouped"
    /\ UNCHANGED <<page_width, page_height, lines, column_info, images,
                   tables, elements>>
    /\ UNCHANGED outside_page

\* Step 7: text_blocks = self._mark_headers_footers(text_blocks, height).
MarkHeadersFooters ==
    /\ pc = "grouped"
    /\ text_blocks' = mark_headers_footers(text_blocks, page_height)
    /\ pc' = "marked"
    /\ UNCHANGED <<page_width, page_height, lines, column_info, images,
                   tables, elements>>
    /\ UNCHANGED outside_page

NextBlocks ==
    \/ ExtractTextLine
    \/ DetectColumns
    \/ AssignColumns
    \/ GroupLines
    \/ MarkHeadersFooters

SpecBlocks == InitBlocks /\ [][NextBlocks]_vars

---------------------------------------------------------------------------
(* Specification SpecOrder: one page through all nine steps of             *)
(* _extract_page, with tables and images, up to the reading order          *)

MaxTables == 1
MaxImages == 2

\* A single-column page: a header, two body lines, a footer.
SingleColumnPage ==
    << TextLine(1, <<"T">>, <<Pt(70), Pt(20), Pt(600), Pt(32)>>, Pt(12)),
       TextLine(2, <<"T">>, <<Pt(70), Pt(100), Pt(600), Pt(112)>>, Pt(12)),
       TextLine(3, <<"T">>, <<Pt(70), Pt(114), Pt(600), Pt(126)>>, Pt(12)),
       TextLine(4, <<"T">>, <<Pt(70), Pt(960), Pt(600), Pt(972)>>, Pt(12)) >>

\* A two-column page: in each column a header, two paragraphs of two lines
\* and a footer; the right header is higher than the left one and the right
\* footer higher than the left one.
TwoColumnPage ==
    << TextLine(1, <<"T">>, <<Pt(50), Pt(20), Pt(250), Pt(32)>>, Pt(12)),
       TextLine(2, <<"T">>, <<Pt(400), Pt(10), Pt(600), Pt(22)>>, Pt(12)),
       TextLine(3, <<"T">>, <<Pt(50), Pt(100), Pt(250), Pt(112)>>, Pt(12)),
       TextLine(4, <<"T">>, <<Pt(400), Pt(100), Pt(600), Pt(112)>>, Pt(12)),
       TextLine(5, <<"T">>, <<Pt(50), Pt(114), Pt(250), Pt(126)>>, Pt(12)),
       TextLine(6, <<"T">>, <<Pt(400), Pt(114), Pt(600), Pt(126)>>, Pt(12)),
       TextLine(7, <<"T">>, <<Pt(50), Pt(300), Pt(250), Pt(312)>>, Pt(12)),
       TextLine(8, <<"T">>, <<Pt(400), Pt(300), Pt(600), Pt(312)>>, Pt(12)),
       TextLine(9, <<"T">>, <<Pt(50), Pt(314), Pt(250), Pt(326)>>, Pt(12)),
       TextLine(10, <<"T">>, <<Pt(400), Pt(314), Pt(600), Pt(326)>>, Pt(12)),
       TextLine(11, <<"T">>, <<Pt(50), Pt(970), Pt(250), Pt(982)>>, Pt(12)),
       TextLine(12, <<"T">>, <<Pt(400), Pt(960), Pt(600), Pt(972)>>, Pt(12)) >>

OrderPages == {SingleColumnPage, TwoColumnPage}

\* Boxes of the tables a page may hold: a wide table between the
\* paragraphs, a narrow table in the right column, a table over the second
\* paragraph of the left column.
TableBoxes ==
    { <<Pt(50), Pt(200), Pt(600), Pt(260)>>,
      <<Pt(410), Pt(150), Pt(590), Pt(190)>>,
      <<Pt(50), Pt(295), Pt(250), Pt(330)>> }

\* Boxes of the images a page may hold: a narrow image in the left column
\* level with the first paragraph, a wide image between the paragraphs, a
\* narrow image in the left margin, an image that starts above the page, a
\* narrow image in the right column below the footers.
ImageBoxes ==
    { <<Pt(60), Pt(100), Pt(200), Pt(180)>>,
      <<Pt(50), Pt(200), Pt(600), Pt(280)>>,
      <<Pt(10), Pt(120), Pt(40), Pt(140)>>,
      <<Pt(60), 0 - Pt(10), Pt(200), Pt(50)>>,
      <<Pt(420), Pt(980), Pt(560), Pt(995)>> }

InitOrder ==
    /\ pc = "text_lines"
    /\ page_width = Pt(650)
    /\ page_height = Pt(1000)
    /\ lines \in OrderPages
    /\ column_info = NoColumnInfo
    /\ text_blocks = <<>>
    /\ images = <<>>
    /\ tables = <<>>
    /\ elements = <<>>
    /\ OnlyPage

\* Step 2: _extract_tables appends one more table (every table found has
\* data, so tables and table_bboxes list the same boxes).
ExtractTable ==
    /\ pc = "text_lines"
    /\ Len(tables) < MaxTables
    /\ \E b \in TableBoxes : tables' = Append(tables, TableInfo(Len(tables) + 1, b))
    /\ UNCHANGED <<pc, page_width, page_height, lines, column_info,
                   text_blocks, images, elements>>
    /\ UNCHANGED outside_page

\* Step 8: _extract_images appends one more image.
ExtractImage ==
    /\ pc = "marked"
    /\ Len(images) < MaxImages
    /\ \E b \in ImageBoxes : images' = Append(images, ImageInfo(Len(images) + 1, b))
    /\ UNCHANGED <<pc, page_width, page_height, lines, column_info,
                   text_blocks, tables, elements>>
    /\ UNCHANGED outside_page

\* Step 9: elements = self._create_reading_order(...).
CreateReadingOrder ==
    /\ pc = "marked"
    /\ elements' = create_reading_order(text_blocks, images, tables,
                                        column_info, page_width)
    /\ pc' = "ordered"
    /\ UNCHANGED <<page_width, page_height, lines, column_info, text_blocks,
                   images, tables>>
    /\ UNCHANGED outside_page

NextOrder ==
    \/ ExtractTable
    \/ DetectColumns
    \/ AssignColumns
    \/ GroupLines
    \/ MarkHeadersFooters
    \/ ExtractImage
    \/ CreateReadingOrder

SpecOrder == InitOrder /\ [][NextOrder]_vars

---------------------------------------------------------------------------
(* Specification SpecDocx: one page through _extract_page, then            *)
(* DOCXGenerator.generate up to the page's content                         *)

\* The two-column page with a page number as its left header.
NumberedPage ==
    [TwoColumnPage EXCEPT ![1].text = <<"1", "2">>]

DocxPages == {TwoColumnPage, NumberedPage}

InitDocx ==
    /\ pc = "text_lines"
    /\ page_width = Pt(650)
    /\ page_height = Pt(1000)
    /\ lines \in DocxPages
    /\ column_info = NoColumnInfo
    /\ text_blocks = <<>>
    /\ images = <<>>
    /\ tables = <<>>
    /\ elements = <<>>
    /\ OnlyPage

\* _extract_page returns the PageContent; extract_document appends it.
ReturnPage ==
    /\ pc = "ordered"
    /\ pages' = Append(pages, PageContent(Len(pages), page_width, page_height,
                                          elements, column_info, text_blocks,
                                          images, tables))
    /\ pc' = "extracted"
    /\ UNCHANGED <<page_vars, generator_vars, result, source, layout_hints,
                   analyzer_vars>>

GenerationResult(success, pages_processed, texts, imgs, tbls, errs) ==
    [success |-> success, pages_processed |-> pages_processed,
     text_blocks_written |-> texts, images_added |-> imgs,
     tables_added |-> tbls, errors |-> errs]

\* generate, up to the loop over the pages: a new Document, the counters
\* reset; without pages the failure is returned at once.
GenerateBegin ==
    /\ pc = "extracted"
    /\ doc' = <<>>
    /\ text_count' = 0
    /\ image_count' = 0
    /\ table_count' = 0
    /\ errors' = <<>>
    /\ page_index' = 0
    /\ IF Len(pages) = 0
       THEN /\ result' = << GenerationResult(FALSE, 0, 0, 0, 0,
                                             <<"No pages to process">>) >>
            /\ pc' = "returned"
       ELSE /\ result' = result
            /\ pc' = "generating"
    /\ UNCHANGED <<page_vars, save_outcome, document_vars, analyzer_vars>>

\* The images of a page whose picture python-docx may fail to insert.
ImageIds(page) == {page.images[k].id : k \in 1..Len(page.images)}

\* DOCXGenerator._add_page_break: self.doc.add_page_break()
add_page_break == << [kind |-> "page_break", where |-> "body"] >>

\* Mutant of page_break_before: a page break before the first page too.
page_break_before_every_page(i) == add_page_break

\* The loop of generate, before _generate_page: "if i > 0" the page break.
page_break_before(i) == IF i > 0 THEN add_page_break ELSE <<>>

\* One pass of the loop of generate: the page break before every page but
\* the first, then _generate_page.
GeneratePage ==
    /\ pc = "generating"
    /\ page_index < Len(pages)
    /\ \E bad \in SUBSET ImageIds(pages[page_index + 1]) :
          LET items == generate_page(pages[page_index + 1], bad)
          IN  /\ doc' = doc
                        \o page_break_before(page_index)
                        \o items
              /\ text_count' = text_count + count_kind(items, "paragraph")
              /\ image_count' = image_count + count_pictures(items, TRUE)
              /\ table_count' = table_count + count_kind(items, "table")
              /\ errors' = errors \o image_errors(items)
    /\ page_index' = page_index + 1
    /\ UNCHANGED <<pc, page_vars, save_outcome, result, document_vars,
                   analyzer_vars>>

NextDocx ==
    \/ ExtractTable
    \/ DetectColumns
    \/ AssignColumns
    \/ GroupLines
    \/ MarkHeadersFooters
    \/ ExtractImage
    \/ CreateReadingOrder
    \/ ReturnPage
    \/ GenerateBegin
    \/ GeneratePage

SpecDocx == InitDocx /\ [][NextDocx]_vars

---------------------------------------------------------------------------
(* Specification SpecFlow: a page of stacked text lines through            *)
(* _extract_page and DOCXGenerator.generate up to the page's content       *)

MaxFlowLines == 4

\* Right edge and text of the lines a page may stack from x = 50 on: a
\* full line (200 points wide), a full line ending in a hyphen and a
\* blank, a line of exactly 85% of that width, a short line, a numbered
\* list item and a bullet item.
FlowLinePool ==
    { [x1 |-> 250, text |-> <<"T">>],
      [x1 |-> 250, text |-> <<"a", "-", " ">>],
      [x1 |-> 220, text |-> <<"T">>],
      [x1 |-> 150, text |-> <<"T">>],
      [x1 |-> 250, text |-> <<"1", ".", " ", "x">>],
      [x1 |-> 250, text |-> <<"-", " ", "x">>] }

\* The line of the given row: 12 points high, 2 points under the row above.
FlowLine(id, row, x0, x1, text) ==
    TextLine(id, text,
             <<Pt(x0), Pt(100 + 14 * (row - 1)), Pt(x1), Pt(112 + 14 * (row - 1))>>,
             Pt(12))

\* A two-column page of four stacked lines per column: hyphenated prose on
\* the left, a bullet item on the right.
TwoColumnFlowPage ==
    << FlowLine(1, 1, 50, 250, <<"a", "b", "-">>),
       FlowLine(2, 2, 50, 250, <<"c", "d", " ">>),
       FlowLine(3, 3, 50, 250, <<"e", "f">>),
       FlowLine(4, 4, 50, 250, <<"g", "h", "-">>),
       FlowLine(5, 1, 400, 600, <<"-", " ", "x">>),
       FlowLine(6, 2, 400, 600, <<"T">>),
       FlowLine(7, 3, 400, 600, <<"T">>),
       FlowLine(8, 4, 400, 600, <<"T">>) >>

InitFlow ==
    /\ pc = "text_lines"
    /\ page_width = Pt(650)
    /\ page_height = Pt(1000)
    /\ lines \in {<<>>, TwoColumnFlowPage}
    /\ column_info = NoColumnInfo
    /\ text_blocks = <<>>
    /\ images = <<>>
    /\ tables = <<>>
    /\ elements = <<>>
    /\ OnlyPage

\* Step 1: _extract_text_lines appends the line of the next row.
ExtractFlowLine ==
    /\ pc = "text_lines"
    /\ Len(lines) < MaxFlowLines
    /\ \E t \in FlowLinePool :
          lines' = Append(lines, FlowLine(Len(lines) + 1, Len(lines) + 1,
                                          50, t.x1, t.text))
    /\ UNCHANGED <<pc, page_width, page_height, column_info, text_blocks,
                   images, tables, elements>>
    /\ UNCHANGED outside_page

NextFlow ==
    \/ ExtractFlowLine
    \/ DetectColumns
    \/ AssignColumns
    \/ GroupLines
    \/ MarkHeadersFooters
    \/ CreateReadingOrder
    \/ ReturnPage
    \/ GenerateBegin
    \/ GeneratePage

SpecFlow == InitFlow /\ [][NextFlow]_vars

---------------------------------------------------------------------------
(* PDFExtractor._extract_page and extract_document as functions of the     *)
(* opened PDF                                                              *)

\* A page of the opened PDF: what its fitz.Page hands to _extract_page, and
\* which of its calls raises:
\*   "none"           no call raises,
\*   "get_text"       page.get_text raises in _extract_text_lines,
\*   "find_tables"    page.find_tables raises in _extract_tables,
\*   "table_extract"  tab.extract raises for the first table,
\*   "get_images"     page.get_images raises in _extract_images.
SourcePage(width, height, ls, tbls, imgs, fails) ==
    [width |-> width, height |-> height, lines |-> ls, tables |-> tbls,
     images |-> imgs, fails |-> fails]

\* _extract_tables: the except clause swallows the exception and the lists
\* built so far are returned.  When tab.extract raises, the table's box is
\* already in table_bboxes and the table is not in tables.
extract_tables(page) ==
    IF page.fails = "find_tables" THEN [tables |-> <<>>, table_bboxes |-> <<>>]
    ELSE IF page.fails = "table_extract" /\ page.tables # <<>>
    THEN [tables |-> <<>>, table_bboxes |-> <<page.tables[1]>>]
    ELSE [tables |-> page.tables, table_bboxes |-> page.tables]

\* _extract_images: the except clause swallows the exception.
extract_images(page) ==
    IF page.fails = "get_images" THEN <<>> ELSE page.images

\* _extract_page raises what _extract_text_lines raises.
page_raises(page) == page.fails = "get_text"

\* A Python local: the value is computed once, then Rest reads it.
Bind(value, Rest(_)) ==
    CHOOSE r \in {Rest(v) : v \in {value}} : TRUE

\* _extract_page, steps 1 to 9, for a page that does not raise.
extract_page(page_num, page) ==
    Bind(extract_tables(page), LAMBDA found :
    Bind(lines_outside_tables(page.lines, found.table_bboxes), LAMBDA filtered :
    Bind(detect_columns(filtered, page.width), LAMBDA ci :
    Bind(assign_columns_to_lines(filtered, ci), LAMBDA text_lines :
    Bind(group_lines_into_blocks(text_lines, page.height, ci), LAMBDA grouped :
    Bind(mark_headers_footers(grouped, page.height), LAMBDA blocks :
    Bind(extract_images(page), LAMBDA imgs :
    Bind(create_reading_order(blocks, imgs, found.tables, ci, page.width),
         LAMBDA els :
             PageContent(page_num, page.width, page.height, els, ci, blocks,
                         imgs, found.tables)))))))))

\* LayoutInfo of the hint service (layout_analyzer.py), the fields a reader
\* of hints would use.
LayoutInfo(page_num, num_columns, boundaries, complexity) ==
    [page_num |-> page_num, num_columns |-> num_columns,
     column_boundaries |-> boundaries, complexity |-> complexity]

\* LayoutAnalyzer._default_layout: one column from 5% to 95%.
default_layout(page_num) ==
    LayoutInfo(page_num, 1, << [x_start |-> 5, x_end |-> 95] >>, "simple")

\* Mutant of extract_document_pass: the hint's column count replaces the
\* detected one.
extract_document_pass_hinted(pgs, src, hints) ==
    LET page_num == Len(pgs)
        page == extract_page(page_num, src[page_num + 1])
    IN  Append(pgs,
               IF hints = <<>> THEN page
               ELSE [page EXCEPT !.column_info.num_columns =
                                     hints[page_num + 1].num_columns])

\* One pass of the loop of extract_document:
\*     page_content = self._extract_page(page_num); pages.append(page_content)
\* layout_hints is a parameter of extract_document that its body never reads.
extract_document_pass(pgs, src, hints) ==
    Append(pgs, extract_page(Len(pgs), src[Len(pgs) + 1]))

---------------------------------------------------------------------------
(* Specification SpecDocument: PDFExtractor.extract_document               *)

MaxPages == 2

\* The pages a document may hold: a single-column page with an image, the
\* two-column page with a table over the second left paragraph and two
\* images, that page with each of its calls failing, and an empty page.
TwoColumnSource(fails) ==
    SourcePage(Pt(650), Pt(1000), TwoColumnPage,
               << TableInfo(1, <<Pt(50), Pt(295), Pt(250), Pt(330)>>) >>,
               << ImageInfo(1, <<Pt(60), Pt(100), Pt(200), Pt(180)>>),
                  ImageInfo(2, <<Pt(50), Pt(200), Pt(600), Pt(280)>>) >>,
               fails)

SourcePagePool ==
    { SourcePage(Pt(650), Pt(1000), SingleColumnPage, <<>>,
                 << ImageInfo(1, <<Pt(60), Pt(100), Pt(200), Pt(180)>>) >>,
                 "none"),
      SourcePage(Pt(650), Pt(1000), <<>>, <<>>, <<>>, "none") }
    \cup { TwoColumnSource(fails) :
             fails \in {"none", "get_text", "find_tables", "table_extract",
                        "get_images"} }

SourceDocuments == UNION { [1..n -> SourcePagePool] : n \in 0..MaxPages }

\* The values of layout_hints for a document of n pages: None, the layouts
\* of a hint service that failed on every page, and layouts that claim
\* three columns on every page.
HintValues(n) ==
    { <<>>,
      [k \in 1..n |-> default_layout(k - 1)],
      [k \in 1..n |-> LayoutInfo(k - 1, 3,
                                 << [x_start |-> 5, x_end |-> 35],
                                    [x_start |-> 35, x_end |-> 65],
                                    [x_start |-> 65, x_end |-> 95] >>,
                                 "complex")] }

\* extract_document is called: self.doc = fitz.open(pdf_path); pages = [].
InitDocument ==
    /\ pc = "extracting"
    /\ source \in SourceDocuments
    /\ layout_hints \in HintValues(Len(source))
    /\ pages = <<>>
    /\ NoPage
    /\ NoGenerator
    /\ result = <<>>
    /\ NoAnalyzer

\* One pass of the loop over range(len(self.doc)).  An exception of
\* _extract_page is caught nowhere: it leaves extract_document, and the
\* pages collected so far are lost with the frame.
ExtractPage ==
    /\ pc = "extracting"
    /\ Len(pages) < Len(source)
    /\ IF page_raises(source[Len(pages) + 1])
       THEN /\ pc' = "raised"
            /\ pages' = <<>>
            /\ result' = << [raised |-> "get_text", page_num |-> Len(pages)] >>
       ELSE /\ pc' = pc
            /\ pages' = extract_document_pass(pages, source, layout_hints)
            /\ result' = result
    /\ UNCHANGED <<page_vars, generator_vars, source, layout_hints,
                   analyzer_vars>>

\* self.doc.close(); return pages.
ReturnDocument ==
    /\ pc = "extracting"
    /\ Len(pages) = Len(source)
    /\ pc' = "extracted"
    /\ UNCHANGED <<page_vars, generator_vars, result, document_vars,
                   analyzer_vars>>

NextDocument ==
    \/ ExtractPage
    \/ ReturnDocument

SpecDocument == InitDocument /\ [][NextDocument]_vars

---------------------------------------------------------------------------
(* Specification SpecGenerate: DOCXGenerator.generate on the pages that    *)
(* extract_document returned                                               *)

\* Mutant of save_result: the result reports success whatever save did.
save_result_always_success(outcome, pages_processed, texts, imgs, tbls, errs) ==
    GenerationResult(TRUE, pages_processed, texts, imgs, tbls, errs)

\* The end of generate: the result returned after self.doc.save(output_path)
\* returned ("saved") or raised ("raised").
save_result(outcome, pages_processed, texts, imgs, tbls, errs) ==
    IF outcome = "saved"
    THEN GenerationResult(TRUE, pages_processed, texts, imgs, tbls, errs)
    ELSE GenerationResult(FALSE, pages_processed, texts, imgs, tbls,
                          <<"Failed to save">>)

\* The pages of the pool whose extraction raises nothing.
SoundPagePool == {p \in SourcePagePool : p.fails = "none"}

\* extract_document has returned the pages of a document.
InitGenerate ==
    /\ pc = "extracted"
    /\ source \in UNION { [1..n -> SoundPagePool] : n \in 0..MaxPages }
    /\ layout_hints = <<>>
    /\ pages = [k \in 1..Len(source) |-> extract_page(k - 1, source[k])]
    /\ NoPage
    /\ NoGenerator
    /\ result = <<>>
    /\ NoAnalyzer

\* After the loop: self.doc.save(output_path) returns or raises, and
\* generate returns its GenerationResult.
Save ==
    /\ pc = "generating"
    /\ page_index = Len(pages)
    /\ \E outcome \in {"saved", "raised"} :
          /\ save_outcome' = outcome
          /\ result' = << save_result(outcome, Len(pages), text_count,
                                      image_count, table_count, errors) >>
    /\ pc' = "returned"
    /\ UNCHANGED <<page_vars, doc, text_count, image_count, table_count,
                   errors, page_index, document_vars, analyzer_vars>>

NextGenerate ==
    \/ GenerateBegin
    \/ GeneratePage
    \/ Save

SpecGenerate == InitGenerate /\ [][NextGenerate]_vars

---------------------------------------------------------------------------
(* The layout-hint services: LayoutAnalyzer (layout_analyzer.py) and       *)
(* ClaudeVisionAnalyzer (vision_analyzer.py)                               *)

\* What the call of the service gives for a page:
\*   "ok"            a JSON object with the fields num_columns and
\*                   layout_type,
\*   "not_object"    valid JSON that is not an object,
\*   "api_error"     client.messages.create raises an API error,
\*   "timeout"       client.messages.create raises a timeout,
\*   "invalid_json"  text that json.loads rejects.
Response(kind, num_columns, layout_type) ==
    [kind |-> kind, num_columns |-> num_columns, layout_type |-> layout_type]

ServiceFailures == {"api_error", "timeout", "invalid_json"}

\* LayoutAnalyzer.analyze_document: the pages sampled (sample_pages = 3),
\* 0-based.
pages_to_analyze(total_pages) ==
    IF total_pages <= 3
    THEN [k \in 1..total_pages |-> k - 1]
    ELSE << 0, total_pages \div 2,
            Min2(total_pages - 1, total_pages \div 2 + 2) >>

\* LayoutAnalyzer._analyze_page: the whole exchange is inside try, and
\* except Exception returns the default layout (data.get on a value that is
\* not an object raises inside the try as well).  The fields that an
\* answer does not hold get the defaults of data.get.
layout_analyze_page(page_num, response) ==
    IF response.kind = "ok"
    THEN LayoutInfo(page_num, response.num_columns,
                    << [x_start |-> 5, x_end |-> 95] >>, "simple")
    ELSE default_layout(page_num)

\* ClaudeVisionAnalyzer._fallback_analysis.
fallback_analysis ==
    [layout_type |-> "single_column", num_columns |-> 1,
     column_positions |-> << [x_start |-> 0, x_end |-> 100] >>,
     text_elements |-> <<>>, images |-> <<>>, tables |-> <<>>,
     special_notes |-> "Fallback analysis used"]

\* ClaudeVisionAnalyzer._parse_analysis, on the fields kept here.
parse_analysis(data, page_num) ==
    [page_num |-> page_num, layout_type |-> data.layout_type,
     num_columns |-> data.num_columns,
     column_positions |-> data.column_positions,
     text_elements |-> data.text_elements, images |-> data.images,
     tables |-> data.tables, special_notes |-> data.special_notes]

\* Mutant of vision_raises: only json.JSONDecodeError is caught.
vision_raises_on_api_failure(response) ==
    response.kind \in {"not_object", "api_error", "timeout"}

\* ClaudeVisionAnalyzer._analyze_page raises when _parse_analysis, which is
\* outside the try, calls data.get on a value that is not an object.
vision_raises(response) ==
    response.kind = "not_object"

\* ClaudeVisionAnalyzer._analyze_page, when it does not raise: the parsed
\* answer, or the parsed fallback analysis after json.JSONDecodeError or any
\* other Exception.  The object of an answer holds layout_type and
\* num_columns; _parse_analysis gives the other fields their defaults.
vision_analyze_page(page_num, response) ==
    LET data == IF response.kind = "ok"
                THEN [layout_type |-> response.layout_type,
                      num_columns |-> response.num_columns,
                      column_positions |-> <<>>,
                      text_elements |-> <<>>, images |-> <<>>,
                      tables |-> <<>>, special_notes |-> ""]
                ELSE fallback_analysis
    IN  parse_analysis(data, page_num)

\* The number of k with s[k] = v.
count_of(s, v) == Cardinality({k \in 1..Len(s) : s[k] = v})

\* max(set(column_counts), key=column_counts.count): a set of small
\* integers is iterated in increasing order and max keeps the first of the
\* most frequent values.
dominant_columns(column_counts) ==
    CHOOSE c \in {column_counts[k] : k \in 1..Len(column_counts)} :
        \A k \in 1..Len(column_counts) :
            \/ count_of(column_counts, column_counts[k]) < count_of(column_counts, c)
            \/ /\ count_of(column_counts, column_counts[k]) = count_of(column_counts, c)
               /\ c <= column_counts[k]

\* max(layout_counts, key=layout_counts.get): a dict is iterated in
\* insertion order and max keeps the first of the most frequent values.
dominant_layout(layout_types) ==
    LET first(v) == CHOOSE k \in 1..Len(layout_types) :
                        /\ layout_types[k] = v
                        /\ \A j \in 1..(k - 1) : layout_types[j] # v
    IN  CHOOSE v \in {layout_types[k] : k \in 1..Len(layout_types)} :
            \A k \in 1..Len(layout_types) :
                \/ count_of(layout_types, layout_types[k]) < count_of(layout_types, v)
                \/ /\ count_of(layout_types, layout_types[k]) = count_of(layout_types, v)
                   /\ first(v) <= first(layout_types[k])

\* The position of v in the sequence s of distinct values, 0 if absent.
index_of(s, v) ==
    IF \E k \in 1..Len(s) : s[k] = v
    THEN CHOOSE k \in 1..Len(s) : s[k] = v
    ELSE 0

\* LayoutAnalyzer.analyze_document after its loop: the analysed pages keep
\* their layout, the others get the first layout's fields with the dominant
\* column count.
DocumentLayout(total_pages, layouts) ==
    LET sampled == pages_to_analyze(total_pages)
        column_counts == [k \in 1..Len(layouts) |-> layouts[k].num_columns]
        dominant_cols == dominant_columns(column_counts)
        template == layouts[1]
    IN  [page_count |-> total_pages,
         pages |-> [p \in 1..total_pages |->
                       IF index_of(sampled, p - 1) > 0
                       THEN layouts[index_of(sampled, p - 1)]
                       ELSE LayoutInfo(p - 1, dominant_cols,
                                       template.column_boundaries,
                                       template.complexity)],
         dominant_columns |-> dominant_cols,
         is_consistent |->
             Cardinality({column_counts[k] : k \in 1..Len(column_counts)}) = 1]

\* ClaudeVisionAnalyzer._infer_document_type, for analyses without tables
\* and without a note on a table of contents.
infer_document_type(analyses) ==
    IF 2 * Cardinality({k \in 1..Len(analyses) : analyses[k].num_columns > 1})
           > Len(analyses)
    THEN "article"
    ELSE "document"

\* ClaudeVisionAnalyzer.analyze_document after its loop (pages = None:
\* every page is analysed).
DocumentAnalysis(analyses) ==
    LET layout_types == [k \in 1..Len(analyses) |-> analyses[k].layout_type]
    IN  [page_count |-> Len(analyses),
         pages |-> analyses,
         dominant_layout |-> dominant_layout(layout_types),
         consistent_style |->
             Cardinality({layout_types[k] : k \in 1..Len(layout_types)}) <= 2,
         document_type |-> infer_document_type(analyses)]

---------------------------------------------------------------------------
(* Specification SpecAnalyzer: analyze_document of either hint service     *)

MaxAnalyzerPages == 4

\* What the service may answer for a page.
Responses ==
    { Response("ok", 1, "single_column"),
      Response("ok", 2, "two_column"),
      Response("not_object", 0, ""),
      Response("api_error", 0, ""),
      Response("timeout", 0, ""),
      Response("invalid_json", 0, "") }

\* The pages analyze_document analyses, 0-based, in order.
analysed_pages(a) ==
    IF a.name = "layout"
    THEN pages_to_analyze(a.total_pages)
    ELSE [k \in 1..a.total_pages |-> k - 1]

\* analyze_document is called on a PDF of total_pages pages.
InitAnalyzer ==
    /\ pc = "analyzing"
    /\ analyzer \in [name : {"layout", "vision"},
                     total_pages : 1..MaxAnalyzerPages]
    /\ responses = <<>>
    /\ page_layouts = <<>>
    /\ NoPage
    /\ NoGenerator
    /\ NoDocument
    /\ result = <<>>

\* One pass of the loop of analyze_document: _analyze_page calls the
\* service for the next page and its result is appended; an exception of
\* _analyze_page leaves analyze_document.
AnalyzePage ==
    /\ pc = "analyzing"
    /\ Len(page_layouts) < Len(analysed_pages(analyzer))
    /\ \E response \in Responses :
          LET page_num == analysed_pages(analyzer)[Len(page_layouts) + 1]
          IN  /\ responses' = Append(responses, response)
              /\ IF analyzer.name = "layout"
                 THEN /\ page_layouts' =
                             Append(page_layouts,
                                    layout_analyze_page(page_num, response))
                      /\ pc' = pc
                      /\ result' = result
                 ELSE IF vision_raises(response)
                 THEN /\ page_layouts' = page_layouts
                      /\ pc' = "raised"
                      /\ result' = << [raised |-> response.kind,
                                       page_num |-> page_num] >>
                 ELSE /\ page_layouts' =
                             Append(page_layouts,
                                    vision_analyze_page(page_num, response))
                      /\ pc' = pc
                      /\ result' = result
    /\ UNCHANGED <<page_vars, generator_vars, document_vars, analyzer>>

\* analyze_document returns its DocumentLayout or DocumentAnalysis.
ReturnAnalysis ==
    /\ pc = "analyzing"
    /\ Len(page_layouts) = Len(analysed_pages(analyzer))
    /\ result' = << IF analyzer.name = "layout"
                    THEN DocumentLayout(analyzer.total_pages, page_layouts)
                    ELSE DocumentAnalysis(page_layouts) >>
    /\ pc' = "analyzed"
    /\ UNCHANGED <<page_vars, generator_vars, document_vars, analyzer_vars>>

NextAnalyzer ==
    \/ AnalyzePage
    \/ ReturnAnalysis

SpecAnalyzer == InitAnalyzer /\ [][NextAnalyzer]_vars

---------------------------------------------------------------------------
(* Specification SpecDetect: _detect_columns on pages of several columns   *)
(* with stray lines, degenerate boxes among them                           *)

MaxStrayLines == 2

\* n lines of the span <<x0, x1>> stacked from the row first on.
ColumnOfLines(first, n, x0, x1) ==
    [k \in 1..n |-> SpanLine(first + k - 1, <<Pt(x0), Pt(x1)>>)]

\* Pages of two and of five columns of three lines each.
TwoClusterPage ==
    ColumnOfLines(1, 3, 50, 250) \o ColumnOfLines(4, 3, 400, 600)

FiveClusterPage ==
    ColumnOfLines(1, 3, 50, 120) \o ColumnOfLines(4, 3, 160, 230)
        \o ColumnOfLines(7, 3, 270, 340) \o ColumnOfLines(10, 3, 380, 450)
        \o ColumnOfLines(13, 3, 490, 560)

DetectPages == {<<>>, TwoClusterPage, FiveClusterPage}

\* Boxes <<x0, x1, height>> of the stray lines of a page: a box of zero
\* width in the left margin, one of zero width in the gutter, one of zero
\* height across the page, and two ordinary lines (a short one in the
\* gutter, one in the left column).
StrayBoxes ==
    { <<Pt(10), Pt(10), Pt(12)>>,
      <<Pt(325), Pt(325), Pt(12)>>,
      <<Pt(50), Pt(600), 0>>,
      <<Pt(310), Pt(340), Pt(12)>>,
      <<Pt(50), Pt(250), Pt(12)>> }

\* The stray lines sit in the lower half of the page, the columns above.
IsStray(line) == line.bbox[2] >= Pt(500)

StrayLine(id, box) ==
    TextLine(id, <<"T">>,
             <<box[1], Pt(500 + 20 * id), box[2], Pt(500 + 20 * id) + box[3]>>,
             Pt(12))

InitDetect ==
    /\ pc = "text_lines"
    /\ page_width = Pt(650)
    /\ page_height = Pt(1000)
    /\ lines \in DetectPages
    /\ column_info = NoColumnInfo
    /\ text_blocks = <<>>
    /\ images = <<>>
    /\ tables = <<>>
    /\ elements = <<>>
    /\ OnlyPage

\* _extract_text_lines appends one more line: it keeps every line whose
\* text is not blank, whatever its box.
ExtractStrayLine ==
    /\ pc = "text_lines"
    /\ Len(SelectSeq(lines, IsStray)) < MaxStrayLines
    /\ \E box \in StrayBoxes :
          lines' = Append(lines, StrayLine(Len(lines) + 1, box))
    /\ UNCHANGED <<pc, page_width, page_height, column_info, text_blocks,
                   images, tables, elements>>
    /\ UNCHANGED outside_page

NextDetect == ExtractStrayLine \/ DetectColumns

SpecDetect == InitDetect /\ [][NextDetect]_vars

---------------------------------------------------------------------------
(* Specification SpecFallback: DOCXGenerator.generate on one page whose    *)
(* elements list is empty (_generate_page_fallback)                        *)

MaxFallbackBlocks == 3

\* The lines the text blocks of the page may hold, one line per block: a
\* line in a large font, a line that starts where it ends, a line that
\* overlaps it, a line a little under it, a line far below.
FallbackLinePool ==
    { LineAt(<<"T">>, 50, 100, 250, 120, 18),
      LineAt(<<"T">>, 50, 120, 250, 132, 12),
      LineAt(<<"T">>, 50, 110, 250, 122, 12),
      LineAt(<<"T">>, 50, 126, 250, 138, 12),
      LineAt(<<"T">>, 50, 200, 250, 212, 12) }

\* The text blocks of a page: up to MaxFallbackBlocks different lines of
\* the pool, in any order.
FallbackBlockLists ==
    LET choices == UNION { [1..n -> FallbackLinePool] : n \in 0..MaxFallbackBlocks }
    IN  { [k \in 1..Len(c) |->
              create_block(<< TextLine(k, c[k].text, c[k].bbox, c[k].font_size) >>, 1)] :
          c \in {d \in choices : \A i, j \in 1..Len(d) : d[i] = d[j] => i = j} }

FallbackImageLists ==
    { <<>>, << ImageInfo(1, <<Pt(60), Pt(130), Pt(200), Pt(180)>>) >> }

FallbackTableLists ==
    { <<>>, << TableInfo(1, <<Pt(50), Pt(180), Pt(250), Pt(230)>>) >> }

\* generate is called with one PageContent that has no elements.
InitFallback ==
    /\ pc = "extracted"
    /\ \E blocks \in FallbackBlockLists, imgs \in FallbackImageLists,
          tbls \in FallbackTableLists :
          pages = << PageContent(0, Pt(650), Pt(1000), <<>>,
                                 ColumnInfo(1, << <<0, Pt(650)>> >>, <<>>),
                                 blocks, imgs, tbls) >>
    /\ source = <<>>
    /\ layout_hints = <<>>
    /\ NoPage
    /\ NoGenerator
    /\ result = <<>>
    /\ NoAnalyzer

NextFallback ==
    \/ GenerateBegin
    \/ GeneratePage
    \/ Save

SpecFallback == InitFallback /\ [][NextFallback]_vars

---------------------------------------------------------------------------
(* PDFAnalyzer (src/pdf_converter/analyzer.py): margins, header and footer *)
(* blocks, columns by clustering of the blocks' centres, reading order     *)

\* analyzer.TextBlock.  id stands for the Python object's identity; the
\* text and the font are read by none of the modelled functions.
AnalyzerTextBlock(id, bbox) == [id |-> id, bbox |-> bbox]

\* A position that is not a whole number of model units: num / den, den > 0.
Rat(num, den) == <<num, den>>
RatLeq(a, b) == a[1] * b[2] <= b[1] * a[2]
\* (a + b) / 2
RatMid(a, b) == Rat(a[1] * b[2] + b[1] * a[2], 2 * a[2] * b[2])

\* TextBlock.center_x = (x0 + x1) / 2
center_x(block) == Rat(block.bbox[1] + block.bbox[3], 2)

\* PDFAnalyzer._detect_margins
detect_margins(blocks, W, H) ==
    IF Len(blocks) = 0
    THEN [left |-> Pt(72), right |-> Pt(72), top |-> Pt(72), bottom |-> Pt(72)]
    ELSE LET n == Len(blocks)
         IN  [left |-> Max2(SeqMin([k \in 1..n |-> blocks[k].bbox[1]]), Pt(20)),
              right |-> Max2(W - SeqMax([k \in 1..n |-> blocks[k].bbox[3]]), Pt(20)),
              top |-> Max2(SeqMin([k \in 1..n |-> blocks[k].bbox[2]]), Pt(20)),
              bottom |-> Max2(H - SeqMax([k \in 1..n |-> blocks[k].bbox[4]]), Pt(20))]

\* PDFAnalyzer._separate_header_footer
separate_header_footer(blocks, H, margins) ==
    LET header_threshold == margins.top + Pt(50)
        footer_threshold == H - margins.bottom - Pt(50)
        is_header(b) == b.bbox[4] < header_threshold
        is_footer(b) == ~is_header(b) /\ b.bbox[2] > footer_threshold
    IN  [headers |-> SelectSeq(blocks, is_header),
         footers |-> SelectSeq(blocks, is_footer),
         content |-> SelectSeq(blocks, LAMBDA b : ~is_header(b) /\ ~is_footer(b))]

\* statistics.mean of a cluster of doubled centres: sum / (2 * len).
RECURSIVE SumSeq(_)
SumSeq(s) == IF Len(s) = 0 THEN 0 ELSE Head(s) + SumSeq(Tail(s))

cluster_mean(cluster) == Rat(SumSeq(cluster), 2 * Len(cluster))

\* The loop of _cluster_positions over sorted_pos[1:].  The positions are
\* the doubled centres x0 + x1; "pos - current_cluster[-1] < threshold"
\* with threshold = content_width * 0.15 is 100 * (difference of the doubled
\* centres) < 30 * content_width.
RECURSIVE cluster_loop(_, _, _, _)
cluster_loop(sorted_pos, k, current_cluster, content_width) ==
    IF k > Len(sorted_pos) THEN << cluster_mean(current_cluster) >>
    ELSE IF 100 * (sorted_pos[k] - current_cluster[Len(current_cluster)])
                < 30 * content_width
    THEN cluster_loop(sorted_pos, k + 1, Append(current_cluster, sorted_pos[k]),
                      content_width)
    ELSE << cluster_mean(current_cluster) >>
         \o cluster_loop(sorted_pos, k + 1, << sorted_pos[k] >>, content_width)

\* PDFAnalyzer._cluster_positions
cluster_positions(positions, content_width) ==
    IF Len(positions) = 0 THEN <<>>
    ELSE LET sorted_pos == StableSort(positions,
                                      [k \in 1..Len(positions) |-> <<positions[k]>>])
         IN  cluster_loop(sorted_pos, 2, << sorted_pos[1] >>, content_width)

Column(x0, x1, blocks) == [x0 |-> x0, x1 |-> x1, blocks |-> blocks]

\* "if x0 <= block.center_x <= x1"
in_column(block, x0, x1) ==
    RatLeq(x0, center_x(block)) /\ RatLeq(center_x(block), x1)

\* PDFAnalyzer._detect_columns: the columns and the layout type.
analyzer_detect_columns(blocks, W, margins) ==
    LET content_left == margins.left
        content_right == W - margins.right
        content_width == content_right - content_left
    IN  IF Len(blocks) = 0
        THEN [columns |-> << Column(Rat(content_left, 1), Rat(content_right, 1), <<>>) >>,
              layout_type |-> "single_column"]
        ELSE LET sorted_positions ==
                     cluster_positions([k \in 1..Len(blocks) |->
                                           blocks[k].bbox[1] + blocks[k].bbox[3]],
                                       content_width)
                 num_columns == Len(sorted_positions)
                 x0(i) == IF i = 1 THEN Rat(content_left, 1)
                          ELSE RatMid(sorted_positions[i - 1], sorted_positions[i])
                 x1(i) == IF i = num_columns THEN Rat(content_right, 1)
                          ELSE RatMid(sorted_positions[i], sorted_positions[i + 1])
                 wide_blocks ==
                     SelectSeq(blocks, LAMBDA b :
                                  10 * (b.bbox[3] - b.bbox[1]) > 6 * content_width)
             IN  [columns |->
                      [i \in 1..num_columns |->
                          Column(x0(i), x1(i),
                                 SelectSeq(blocks, LAMBDA b : in_column(b, x0(i), x1(i))))],
                  layout_type |->
                      IF Len(wide_blocks) > 0 /\ num_columns > 1 THEN "mixed"
                      ELSE IF num_columns = 1 THEN "single_column"
                      ELSE IF num_columns = 2 THEN "two_column"
                      ELSE IF num_columns = 3 THEN "three_column"
                      ELSE "multi_column"]

\* block_indices.get(id(block)): the 0-based index of the block in blocks
\* (the last one, should an object be listed twice), -1 for None.
block_index(blocks, block) ==
    LET hits == {i \in 1..Len(blocks) : blocks[i].id = block.id}
    IN  IF hits = {} THEN -1
        ELSE (CHOOSE i \in hits : \A j \in hits : j <= i) - 1

\* Mutant of add_index: the index is appended whether listed or not.
add_index_always(reading_order, idx) == Append(reading_order, idx)

\* "if idx not in reading_order: reading_order.append(idx)"
add_index(reading_order, idx) ==
    IF \E k \in 1..Len(reading_order) : reading_order[k] = idx
    THEN reading_order
    ELSE Append(reading_order, idx)

\* The loop over the blocks of one column, sorted by y0.
RECURSIVE col_blocks_loop(_, _, _, _)
col_blocks_loop(col_blocks, k, reading_order, blocks) ==
    IF k > Len(col_blocks) THEN reading_order
    ELSE LET idx == block_index(blocks, col_blocks[k])
         IN  col_blocks_loop(col_blocks, k + 1,
                             IF idx # -1 THEN add_index(reading_order, idx)
                             ELSE reading_order,
                             blocks)

\* "for col in columns"
RECURSIVE columns_loop(_, _, _, _)
columns_loop(columns, c, reading_order, blocks) ==
    IF c > Len(columns) THEN reading_order
    ELSE LET col_blocks ==
                 StableSort(columns[c].blocks,
                            [k \in 1..Len(columns[c].blocks) |->
                                <<columns[c].blocks[k].bbox[2]>>])
         IN  columns_loop(columns, c + 1,
                          col_blocks_loop(col_blocks, 1, reading_order, blocks),
                          blocks)

\* "Add any blocks that weren't assigned to columns"
RECURSIVE unassigned_loop(_, _, _)
unassigned_loop(blocks, i, reading_order) ==
    IF i > Len(blocks) THEN reading_order
    ELSE unassigned_loop(blocks, i + 1, add_index(reading_order, i - 1))

\* PDFAnalyzer._determine_reading_order: 0-based indices into blocks.
determine_reading_order(blocks, columns, layout_type) ==
    IF Len(blocks) = 0 THEN <<>>
    ELSE IF layout_type = "single_column"
    THEN StableSort([i \in 1..Len(blocks) |-> i - 1],
                    [i \in 1..Len(blocks) |-> <<blocks[i].bbox[2], blocks[i].bbox[1]>>])
    ELSE unassigned_loop(blocks, 1, columns_loop(columns, 1, <<>>, blocks))

\* PageLayout; the images are left out.
PageLayout(page_num, W, H, detected, blocks, separated, margins, reading_order) ==
    [page_num |-> page_num, width |-> W, height |-> H,
     layout_type |-> detected.layout_type, columns |-> detected.columns,
     text_blocks |-> blocks, header_blocks |-> separated.headers,
     footer_blocks |-> separated.footers, margins |-> margins,
     reading_order |-> reading_order]

\* PDFAnalyzer._analyze_page on the extracted text blocks.
pdf_analyze_page(page_num, blocks, W, H) ==
    Bind(detect_margins(blocks, W, H), LAMBDA margins :
    Bind(separate_header_footer(blocks, H, margins), LAMBDA separated :
    Bind(analyzer_detect_columns(separated.content, W, margins), LAMBDA detected :
    Bind(determine_reading_order(separated.content, detected.columns,
                                 detected.layout_type), LAMBDA reading_order :
        PageLayout(page_num, W, H, detected, blocks, separated, margins,
                   reading_order)))))

---------------------------------------------------------------------------
(* Specification SpecReading: PDFAnalyzer._analyze_page on one page        *)

MaxExtraBlocks == 2

BlockAt(x0, y0, x1, y1) == <<Pt(x0), Pt(y0), Pt(x1), Pt(y1)>>

\* A page with a header line, a footer line and four narrow blocks whose
\* centres (100, 170, 240, 310) are each 70 points from the next.
ChainPage ==
    << AnalyzerTextBlock(1, BlockAt(50, 30, 600, 42)),
       AnalyzerTextBlock(2, BlockAt(50, 950, 600, 962)),
       AnalyzerTextBlock(3, BlockAt(70, 100, 130, 112)),
       AnalyzerTextBlock(4, BlockAt(140, 200, 200, 212)),
       AnalyzerTextBlock(5, BlockAt(210, 300, 270, 312)),
       AnalyzerTextBlock(6, BlockAt(280, 150, 340, 162)) >>

\* The boxes of the blocks a page may hold besides: a block centred at 415,
\* a block above it, a block at the left edge of the page, a block at the
\* right edge, a block across the page, a block under the first of the chain.
ExtraBlockBoxes ==
    { BlockAt(385, 120, 445, 132),
      BlockAt(385, 90, 445, 102),
      BlockAt(0, 400, 20, 412),
      BlockAt(630, 400, 650, 412),
      BlockAt(50, 500, 600, 512),
      BlockAt(70, 114, 130, 126) }

InitReading ==
    /\ pc = "analyzer_blocks"
    /\ page_width = Pt(650)
    /\ page_height = Pt(1000)
    /\ lines = <<>>
    /\ column_info = NoColumnInfo
    /\ text_blocks \in {<<>>, ChainPage}
    /\ images = <<>>
    /\ tables = <<>>
    /\ elements = <<>>
    /\ OnlyPage

\* Number of blocks extracted on top of the base page.
ExtraBlocks == IF Len(text_blocks) >= 6 /\ SubSeq(text_blocks, 1, 6) = ChainPage
               THEN Len(text_blocks) - 6 ELSE Len(text_blocks)

\* _extract_text_blocks appends one more block.
ExtractTextBlock ==
    /\ pc = "analyzer_blocks"
    /\ ExtraBlocks < MaxExtraBlocks
    /\ \E b \in ExtraBlockBoxes :
          text_blocks' = Append(text_blocks,
                                AnalyzerTextBlock(Len(text_blocks) + 1, b))
    /\ UNCHANGED <<pc, page_width, page_height, lines, column_info, images,
                   tables, elements>>
    /\ UNCHANGED outside_page

\* _analyze_page returns the PageLayout of the page.
PDFAnalyzePage ==
    /\ pc = "analyzer_blocks"
    /\ result' = << pdf_analyze_page(0, text_blocks, page_width, page_height) >>
    /\ pc' = "analyzed"
    /\ UNCHANGED <<page_vars, generator_vars, document_vars, analyzer_vars>>

NextReading ==
    \/ ExtractTextBlock
    \/ PDFAnalyzePage

SpecReading == InitReading /\ [][NextReading]_vars

---------------------------------------------------------------------------
(* Properties of _detect_columns (specification Spec)                      *)

Detected == pc = "columns_detected"

LeftEdges(ls) == [i \in 1..Len(ls) |-> ls[i].bbox[1]]
RightEdges(ls) == [i \in 1..Len(ls) |-> ls[i].bbox[3]]

\* All lines of ls share an x-coordinate inside their horizontal spans.
ShareCommonX(ls) ==
    Len(ls) > 0 /\ SeqMax(LeftEdges(ls)) <= SeqMin(RightEdges(ls))

SubLines(ls, I) == SelectSeq(ls, LAMBDA l : l.id \in I)

\* C1: the boundaries returned by _detect_columns are sorted left to right,
\* do not overlap, leave no gap between consecutive columns (each x_end is
\* the next x_start) and cover the content width from the leftmost to the
\* rightmost text edge.
C1_BoundariesPartitionContent ==
    (Detected /\ Len(lines) > 0) =>
        LET b == column_info.boundaries
            n == Len(b)
        IN  /\ n >= 1
            /\ \A k \in 1..n : b[k][1] <= b[k][2]
            /\ \A k \in 1..(n - 1) : b[k][2] = b[k + 1][1]
            /\ b[1][1] = SeqMin(LeftEdges(lines))
            /\ b[n][2] = SeqMax(RightEdges(lines))

\* C6: lines that all share a common x-coordinate inside their spans (one
\* column of overlapping lines) are detected as a single column, whatever
\* their lengths and count.
C6_OverlappingLinesSingleColumn ==
    (Detected /\ ShareCommonX(lines)) => column_info.num_columns = 1

\* Witness of C6: at least three overlapping lines of different lengths,
\* with a low-density region at least MIN_GUTTER_WIDTH wide strictly inside
\* the content, were detected as one column.
C6_Witness ==
    /\ Detected
    /\ ShareCommonX(lines)
    /\ Len(lines) >= 3
    /\ \E i, j \in 1..Len(lines) :
          lines[i].bbox[3] - lines[i].bbox[1] # lines[j].bbox[3] - lines[j].bbox[1]
    /\ LET v == validated_gutters_unchecked(lines, page_width)
       IN  \E k \in 1..Len(v) :
              /\ SeqMin(LeftEdges(lines)) < v[k]
              /\ v[k] < SeqMax(RightEdges(lines))
    /\ column_info.num_columns = 1

\* Two clusters: the lines split into a left and a right group, each of
\* mutually overlapping lines, with no horizontal overlap between the
\* groups and a gap of at least MIN_GUTTER_WIDTH between them.
TwoClusters(ls, I) ==
    LET left == SubLines(ls, I)
        right == SubLines(ls, {ls[i].id : i \in 1..Len(ls)} \ I)
    IN  /\ Len(left) > 0
        /\ Len(right) > 0
        /\ ShareCommonX(left)
        /\ ShareCommonX(right)
        /\ SeqMin(LeftEdges(right)) - SeqMax(RightEdges(left)) >= Pt(MIN_GUTTER_WIDTH)

ClusterSplits(ls) ==
    {I \in SUBSET {ls[i].id : i \in 1..Len(ls)} : TwoClusters(ls, I)}

\* The observed extent <<min left edge, max right edge>> of a cluster.
Extent(ls) == <<SeqMin(LeftEdges(ls)), SeqMax(RightEdges(ls))>>

UniformCluster(ls) ==
    \A i \in 1..Len(ls) : <<ls[i].bbox[1], ls[i].bbox[3]>> = Extent(ls)

ScenarioA ==
    /\ page_width = Pt(650)
    /\ Len(lines) = 6
    /\ \A i \in 1..3 : <<lines[i].bbox[1], lines[i].bbox[3]>> = <<Pt(50), Pt(250)>>
    /\ \A i \in 4..6 : <<lines[i].bbox[1], lines[i].bbox[3]>> = <<Pt(400), Pt(600)>>
    /\ \A i, j \in 1..6 : i # j => lines[i].bbox[2] # lines[j].bbox[2]

---------------------------------------------------------------------------
(* Properties of block segmentation and region classification              *)
(* (specification SpecBlocks)                                              *)

Grouped == pc \in {"grouped", "marked"}

\* The places <<block, position>> of the blocks' line lists.
BlockPlaces(blocks) ==
    {<<b, k>> \in (1..Len(blocks)) \X (1..(4 + MaxPageLines + 1)) :
        k <= Len(blocks[b].lines)}

\* The blocks' lines flattened back to one list, in block order.
RECURSIVE Flatten(_)
Flatten(blocks) ==
    IF Len(blocks) = 0 THEN <<>>
    ELSE Head(blocks).lines \o Flatten(Tail(blocks))

\* C2: every text line passed to _group_lines_into_blocks is in the lines
\* list of exactly one returned block, once; no line is lost or duplicated.
C2_EveryLineInExactlyOneBlock ==
    Grouped =>
        /\ \A i \in 1..Len(lines) :
              Cardinality({p \in BlockPlaces(text_blocks) :
                             text_blocks[p[1]].lines[p[2]] = lines[i]}) = 1
        /\ Cardinality(BlockPlaces(text_blocks)) = Len(lines)

\* Witness of C2: a two-column page of at least six lines was grouped into
\* several blocks, one of them holding more than one line.
C2_Witness ==
    /\ Grouped
    /\ column_info.num_columns = 2
    /\ Len(lines) >= 6
    /\ Len(text_blocks) >= 3
    /\ \E b \in 1..Len(text_blocks) : Len(text_blocks[b].lines) >= 2

\* C9: segmentation is idempotent: grouping the blocks' lines, flattened in
\* block order, under the same column layout gives the same blocks (same
\* lines in the same order, same column per block).
C9_SegmentationIdempotent ==
    pc = "grouped" =>
        group_lines_into_blocks(Flatten(text_blocks), page_height, column_info)
            = text_blocks

\* Witness of C9: two lines with the same sort key (column, y0, x0) were
\* grouped into different blocks, next to a block of several lines.
C9_Witness ==
    /\ pc = "grouped"
    /\ \E a, b \in 1..Len(text_blocks) :
          /\ a # b
          /\ text_blocks[a].lines[1].bbox = text_blocks[b].lines[1].bbox
          /\ GetColumn(text_blocks[a].lines[1]) = GetColumn(text_blocks[b].lines[1])
    /\ \E b \in 1..Len(text_blocks) : Len(text_blocks[b].lines) >= 2

\* C10: after _mark_headers_footers every block flagged is_header or
\* is_footer has column 0.
C10_HeaderFooterBlocksFullWidth ==
    pc = "marked" =>
        \A b \in 1..Len(text_blocks) :
            (text_blocks[b].is_header \/ text_blocks[b].is_footer)
                => text_blocks[b].column = 0


\* C11: in every block returned by _group_lines_into_blocks the lines are
\* non-decreasing by (y0, x0) and all carry the same assigned column, which
\* is the block's column.
C11_BlockLinesOrderedInOneColumn ==
    Grouped =>
        \A b \in 1..Len(text_blocks) :
            /\ \A k \in 1..Len(text_blocks[b].lines) :
                  GetColumn(text_blocks[b].lines[k]) = text_blocks[b].column
            /\ \A k \in 1..(Len(text_blocks[b].lines) - 1) :
                  ~TupleLess(<<text_blocks[b].lines[k + 1].bbox[2],
                               text_blocks[b].lines[k + 1].bbox[1]>>,
                             <<text_blocks[b].lines[k].bbox[2],
                               text_blocks[b].lines[k].bbox[1]>>)

\* Witness of C11: on a two-column page a block holds two lines that were
\* extracted in the opposite order, next to blocks of the other column.
C11_Witness ==
    /\ Grouped
    /\ column_info.num_columns = 2
    /\ \E a, b \in 1..Len(text_blocks) : text_blocks[a].column # text_blocks[b].column
    /\ \E b \in 1..Len(text_blocks) :
          \E k \in 1..(Len(text_blocks[b].lines) - 1) :
              /\ text_blocks[b].lines[k].id > text_blocks[b].lines[k + 1].id
              /\ text_blocks[b].lines[k].bbox[2] < text_blocks[b].lines[k + 1].bbox[2]

---------------------------------------------------------------------------
(* Properties of _create_reading_order (specification SpecOrder)           *)

Ordered == pc = "ordered"

IsHeader(e) == e.element_type = "text" /\ e.element.is_header
IsFooter(e) == e.element_type = "text" /\ e.element.is_footer
IsBody(e) == ~IsHeader(e) /\ ~IsFooter(e)

\* 0 for a header, 1 for body content, 2 for a footer.
Precedence(e) == IF IsHeader(e) THEN 0 ELSE IF IsFooter(e) THEN 2 ELSE 1

\* Number of elements of the list that hold the given block.
Emitted(block) ==
    Cardinality({k \in 1..Len(elements) :
                    /\ elements[k].element_type = "text"
                    /\ elements[k].element = block})

\* C3: on a multi-column page, for every full-width body element F at
\* vertical position Y of the returned list, every column-assigned body
\* element above Y comes before F and every column-assigned body element at
\* or below Y comes after F.
C3_FullWidthElementIsHorizontalBreak ==
    (Ordered /\ column_info.num_columns > 1) =>
        \A f, c \in 1..Len(elements) :
            (/\ IsBody(elements[f]) /\ elements[f].column = 0
             /\ IsBody(elements[c]) /\ elements[c].column >= 1)
            => IF y_position(elements[c]) < y_position(elements[f])
               THEN c < f ELSE c > f

\* C4 as stated: no element of column 0 at vertical position Y, footers
\* included, comes after an element of a column >= 1 whose vertical position
\* is greater than Y + MIN_GUTTER_WIDTH.
C4_FullWidthNeverAfterLowerColumnElement ==
    Ordered =>
        \A c, f \in 1..Len(elements) :
            (c < f /\ elements[f].column = 0 /\ elements[c].column >= 1)
            => y_position(elements[c])
                   <= y_position(elements[f]) + Pt(MIN_GUTTER_WIDTH)

\* C4 (amended): no header and no full-width body element at vertical
\* position Y comes after an element of a column >= 1 whose vertical
\* position is greater than Y + MIN_GUTTER_WIDTH; the footers, which close
\* the list, are not bound by this.
C4_NonFooterFullWidthNeverAfterLowerColumnElement ==
    Ordered =>
        \A c, f \in 1..Len(elements) :
            (/\ c < f
             /\ elements[f].column = 0 /\ ~IsFooter(elements[f])
             /\ elements[c].column >= 1)
            => y_position(elements[c])
                   <= y_position(elements[f]) + Pt(MIN_GUTTER_WIDTH)

\* A two-column page was ordered, a full-width body element comes after
\* column content, and column content lies more than MIN_GUTTER_WIDTH below it.
C4_Witness ==
    /\ Ordered
    /\ column_info.num_columns = 2
    /\ \E c, f, d \in 1..Len(elements) :
          /\ c < f /\ f < d
          /\ elements[f].column = 0 /\ IsBody(elements[f])
          /\ elements[c].column >= 1 /\ elements[d].column >= 1
          /\ y_position(elements[c]) < y_position(elements[f])
          /\ y_position(elements[d])
                 > y_position(elements[f]) + Pt(MIN_GUTTER_WIDTH)

\* C5: on single-column and multi-column pages alike the list holds every
\* header block once, first and in ascending vertical position, then the
\* body content, then every footer block once, in ascending vertical
\* position: no body element precedes a header, no footer precedes a body
\* element.
C5_HeadersBodyFooters ==
    Ordered =>
        /\ \A i, j \in 1..Len(elements) :
              i < j =>
                /\ Precedence(elements[i]) <= Precedence(elements[j])
                /\ (Precedence(elements[i]) = Precedence(elements[j])
                    /\ Precedence(elements[i]) # 1)
                   => y_position(elements[i]) <= y_position(elements[j])
        /\ \A k \in 1..Len(text_blocks) :
              (text_blocks[k].is_header \/ text_blocks[k].is_footer)
              => Emitted(text_blocks[k]) = 1

\* A page was ordered whose block list holds a header below a later header,
\* body blocks, an image and two footers.
C5_Witness ==
    /\ Ordered
    /\ Len(images) > 0
    /\ \E i, j \in 1..Len(text_blocks) :
          /\ i < j
          /\ text_blocks[i].is_header /\ text_blocks[j].is_header
          /\ y_position(text_blocks[i]) > y_position(text_blocks[j])
    /\ \E i, j \in 1..Len(elements) :
          i < j /\ IsFooter(elements[i]) /\ IsFooter(elements[j])
    /\ \E i \in 1..Len(elements) :
          elements[i].element_type = "text" /\ IsBody(elements[i])


\* C12: on a single-column page the body elements are emitted in
\* non-decreasing vertical position, and of two body elements at the same
\* vertical position the left one comes first, whatever their type.
C12_SingleColumnOrderedByYThenX ==
    (Ordered /\ column_info.num_columns = 1) =>
        \A i, j \in 1..Len(elements) :
            (i < j /\ IsBody(elements[i]) /\ IsBody(elements[j]))
            => ~TupleLess(<<elements[j].bbox[2], elements[j].bbox[1]>>,
                          <<elements[i].bbox[2], elements[i].bbox[1]>>)

\* The horizontal centre of the box lies in the boundary (compared doubled).
CentreIn(bbox, boundary) ==
    2 * boundary[1] <= bbox[1] + bbox[3] /\ bbox[1] + bbox[3] <= 2 * boundary[2]

CentreOutsideAll(bbox) ==
    \A k \in 1..Len(column_info.boundaries) :
        ~CentreIn(bbox, column_info.boundaries[k])

\* C13: on a multi-column page an image or table is emitted with column 0
\* exactly when it is wider than 60% of the page or its horizontal centre
\* lies outside every column boundary; any other is emitted with the
\* 1-based index of the first boundary that holds its centre.
C13_ImageTableColumn ==
    (Ordered /\ column_info.num_columns > 1) =>
        \A i \in 1..Len(elements) :
            elements[i].element_type \in {"image", "table"} =>
              LET box == elements[i].bbox
                  c == elements[i].column
              IN  /\ c = 0 <=> \/ 10 * (box[3] - box[1]) > 6 * page_width
                               \/ CentreOutsideAll(box)
                  /\ c # 0 =>
                       /\ c \in 1..Len(column_info.boundaries)
                       /\ CentreIn(box, column_info.boundaries[c])
                       /\ \A k \in 1..(c - 1) :
                             ~CentreIn(box, column_info.boundaries[k])

\* Witness of C13: a two-column page was ordered with a narrow image in
\* column 0 (centre outside the boundaries) and an image or table in a
\* column >= 1.
C13_Witness ==
    /\ Ordered
    /\ column_info.num_columns = 2
    /\ \E i \in 1..Len(elements) :
          /\ elements[i].element_type = "image"
          /\ elements[i].column = 0
          /\ CentreOutsideAll(elements[i].bbox)
    /\ \E i \in 1..Len(elements) :
          /\ elements[i].element_type \in {"image", "table"}
          /\ elements[i].column >= 1


---------------------------------------------------------------------------
(* Properties of DOCXGenerator._generate_multicolumn_page (specification   *)
(* SpecDocx)                                                               *)

\* The one page of the document has been written.
PageWritten == pc = "generating" /\ page_index = 1 /\ Len(pages) = 1

NoKey == [type |-> "none", ids |-> <<>>]

\* The containers of the body, in order: a column container, or the
\* standalone container of an element.
Containers(items) ==
    [k \in 1..Len(items) |->
        IF items[k].kind = "columns"
        THEN [container |-> "columns", key |-> NoKey]
        ELSE [container |-> "standalone",
              key |-> IF items[k].kind \in {"paragraph", "picture", "table"}
                      THEN items[k].key ELSE NoKey]]

\* A header or footer block whose text is a page number: 1 to 10 digits.
IsPageNumber(e) ==
    /\ e.element_type = "text"
    /\ e.element.is_header \/ e.element.is_footer
    /\ LET t == Strip(block_text(e.element.lines))
       IN  Len(t) \in 1..10 /\ \A k \in 1..Len(t) : t[k] \in Digits

\* The containers the element list calls for: one column container where a
\* maximal run of column-assigned elements starts, one standalone container
\* per full-width element, those in unwritten left out.
RECURSIVE ContainersFor(_, _, _)
ContainersFor(els, k, unwritten) ==
    IF k > Len(els) THEN <<>>
    ELSE (IF els[k].column = 0
          THEN IF k \in unwritten THEN <<>>
               ELSE << [container |-> "standalone",
                        key |-> ElementKey(els[k].element_type, els[k].element)] >>
          ELSE IF k = 1 \/ els[k - 1].column = 0
               THEN << [container |-> "columns", key |-> NoKey] >>
               ELSE <<>>)
         \o ContainersFor(els, k + 1, unwritten)

\* C14 as stated: on a multi-column page the body holds, in element order,
\* exactly one column container per maximal run of column-assigned
\* elements and one standalone container per full-width element.
C14_ContainerPerRunAndPerFullWidth ==
    (PageWritten /\ pages[1].column_info.num_columns > 1) =>
        Containers(doc) = ContainersFor(pages[1].elements, 1, {})

\* C14 (amended): the same, except that a full-width header or footer
\* block that is only a page number gets no container.
C14_ContainerPerRunAndPerWrittenFullWidth ==
    (PageWritten /\ pages[1].column_info.num_columns > 1) =>
        Containers(doc) =
            ContainersFor(pages[1].elements, 1,
                          {k \in 1..Len(pages[1].elements) :
                              IsPageNumber(pages[1].elements[k])})

\* Witness of C14: a page whose header is a page number was written, and a
\* full-width table lies between two column containers.
C14_Witness ==
    /\ PageWritten
    /\ pages[1].column_info.num_columns > 1
    /\ \E k \in 1..Len(pages[1].elements) : IsPageNumber(pages[1].elements[k])
    /\ \E k \in 1..(Len(doc) - 2) :
          /\ doc[k].kind = "columns"
          /\ doc[k + 1].kind = "table"
          /\ doc[k + 2].kind = "columns"


---------------------------------------------------------------------------
(* Properties of _should_flow_text, _add_text_block and                    *)
(* _add_text_block_to_cell (specification SpecFlow)                        *)

\* The blocks of the written page that have at least one non-final line.
WrittenBlocks ==
    IF PageWritten
    THEN {pages[1].text_blocks[k] : k \in 1..Len(pages[1].text_blocks)}
    ELSE {}

\* The paragraphs written for the block, in the body or in a cell.
ParagraphsOf(block) ==
    SelectSeq(written(doc), LAMBDA it : /\ it.kind = "paragraph"
                                        /\ it.key = ElementKey("text", block))

LineWidth(block, k) == block.lines[k].bbox[3] - block.lines[k].bbox[1]

WidestLine(block) ==
    SeqMax([k \in 1..Len(block.lines) |-> LineWidth(block, k)])

\* The first line, stripped, starts with a bullet glyph or with digits
\* followed by '.' or ')' and a blank.
StartsWithMarker(block) ==
    LET t == Strip(block.lines[1].text)
    IN  /\ Len(t) > 0
        /\ \/ t[1] \in BulletChars
           \/ \E k \in 1..(Len(t) - 2) :
                 /\ \A j \in 1..k : t[j] \in Digits
                 /\ t[k + 1] \in {".", ")"}
                 /\ t[k + 2] = " "

\* The paragraph keeps the lines apart by explicit line breaks.
KeepsLineBreaks(block, para) ==
    /\ Len(para.runs) = 2 * Len(block.lines) - 1
    /\ \A k \in 1..(Len(block.lines) - 1) : para.runs[2 * k] = <<"\n">>

\* C15 as stated: a block with at least one non-final line flows exactly
\* when at least 60% of its non-final lines are at least 85% as wide as its
\* widest line and its first line starts with no bullet or number marker;
\* otherwise its lines are kept as line breaks inside one paragraph.
C15_FlowsWhenMostLinesAreFull ==
    \A b \in WrittenBlocks :
        Len(b.lines) >= 2 =>
            LET n == Len(b.lines)
                full == Cardinality({k \in 1..(n - 1) :
                                        100 * LineWidth(b, k) >= 85 * WidestLine(b)})
                prose == 10 * full >= 6 * (n - 1) /\ ~StartsWithMarker(b)
            IN  /\ should_flow_text(b) <=> prose
                /\ ~prose => /\ Len(ParagraphsOf(b)) = 1
                             /\ KeepsLineBreaks(b, ParagraphsOf(b)[1])

\* The text a flowing block is to give: every line without its trailing
\* blanks; a non-final line that ends in a hyphen loses the hyphen and is
\* followed at once by the next line, any other by one blank.
RECURSIVE FlowedText(_, _)
FlowedText(ls, k) ==
    LET t == RStrip(ls[k].text)
    IN  IF k = Len(ls) THEN t
        ELSE IF Len(t) > 0 /\ t[Len(t)] = "-"
        THEN SubSeq(t, 1, Len(t) - 1) \o FlowedText(ls, k + 1)
        ELSE t \o <<" ">> \o FlowedText(ls, k + 1)

RECURSIVE Concat(_)
Concat(runs) == IF Len(runs) = 0 THEN <<>> ELSE Head(runs) \o Concat(Tail(runs))

\* C16: a flowing block is one paragraph without line-break run whose text
\* joins the lines as FlowedText says; the final line's text is whole.
C16_FlowedParagraphJoinsLines ==
    \A b \in WrittenBlocks :
        should_flow_text(b) =>
            /\ Len(ParagraphsOf(b)) = 1
            /\ LET para == ParagraphsOf(b)[1]
               IN  /\ \A k \in 1..Len(para.runs) : para.runs[k] # <<"\n">>
                   /\ Concat(para.runs) = FlowedText(b.lines, 1)
                   /\ para.runs[Len(para.runs)] = RStrip(b.lines[Len(b.lines)].text)

\* Witness of C16: a flowing block was written into a cell of a column
\* container; one of its non-final lines ends in a hyphen, another does
\* not, and its final line ends in a hyphen.
C16_Witness ==
    \E b \in WrittenBlocks :
        /\ should_flow_text(b)
        /\ Len(ParagraphsOf(b)) = 1
        /\ ParagraphsOf(b)[1].where = "cell"
        /\ \E k \in 1..(Len(b.lines) - 1) : EndsWithHyphen(RStrip(b.lines[k].text))
        /\ \E k \in 1..(Len(b.lines) - 1) : ~EndsWithHyphen(RStrip(b.lines[k].text))
        /\ EndsWithHyphen(RStrip(b.lines[Len(b.lines)].text))

---------------------------------------------------------------------------
(* Properties of extract_document (specification SpecDocument)             *)

\* C17: whatever layout_hints is (None, the layouts of a hint service that
\* failed, or any hint values), the pages that extract_document has
\* collected after a pass of its loop are the pages the same pass collects
\* for each other value of layout_hints on the same document: the same
\* column layouts, blocks and element order.
C17_ExtractionIndependentOfHints ==
    pc \in {"extracting", "extracted"} /\ Len(pages) > 0 =>
        \A h \in HintValues(Len(source)) :
            pages = extract_document_pass(SubSeq(pages, 1, Len(pages) - 1),
                                          source, h)

\* C17 witness: a document was extracted under hints that claim three
\* columns on a page where two were detected.
C17_Witness ==
    /\ pc = "extracted"
    /\ layout_hints # <<>>
    /\ \E k \in 1..Len(pages) :
          /\ pages[k].column_info.num_columns = 2
          /\ layout_hints[k].num_columns = 3
          /\ Len(pages[k].elements) > 0

\* extract_document keeps no list of warnings: what _extract_tables and
\* _extract_images catch is dropped (pass), and a PageContent has no field
\* for it.
warnings == <<>>

\* C20: a page whose text, table or image extraction raises does not abort
\* extract_document: it returns a PageContent for every page in page order,
\* the pages that did not fail are what they are without the failure, and
\* each failure is recorded in the warnings.
C20_PageFailureDoesNotAbort ==
    pc \in {"extracted", "raised"} =>
        /\ pc = "extracted"
        /\ Len(pages) = Len(source)
        /\ \A k \in 1..Len(source) :
              /\ pages[k].page_num = k - 1
              /\ source[k].fails = "none" =>
                     pages[k] = extract_page(k - 1, source[k])
              /\ source[k].fails # "none" =>
                     \E w \in 1..Len(warnings) : warnings[w].page_num = k - 1

---------------------------------------------------------------------------
(* Properties of DOCXGenerator.generate (specification SpecGenerate)       *)

\* C19: when self.doc.save raised, the GenerationResult that generate
\* returns has success = FALSE and its errors hold the save failure; a
\* result with success = TRUE is returned only when save returned.
C19_SaveFailureSurfaced ==
    pc = "returned" =>
        /\ save_outcome = "raised" =>
              /\ result[1].success = FALSE
              /\ \E k \in 1..Len(result[1].errors) :
                    result[1].errors[k] = "Failed to save"
        /\ result[1].success = TRUE => save_outcome = "saved"

\* C19 witness: generate wrote two pages, an image among them, and save
\* raised.
C19_Witness ==
    /\ pc = "returned"
    /\ save_outcome = "raised"
    /\ Len(pages) = 2
    /\ image_count > 0
    /\ result[1].success = FALSE

---------------------------------------------------------------------------
(* Properties of the hint services (specification SpecAnalyzer)            *)

\* The entry of an analysed page is the one of a failed service call:
\* LayoutAnalyzer's default single-column layout, or ClaudeVisionAnalyzer's
\* parsed fallback analysis.
IsFallbackEntry(entry, page_num) ==
    /\ entry.page_num = page_num
    /\ entry.num_columns = 1
    /\ IF analyzer.name = "layout"
       THEN /\ entry.column_boundaries = << [x_start |-> 5, x_end |-> 95] >>
            /\ entry.complexity = "simple"
       ELSE /\ entry.layout_type = "single_column"
            /\ entry.column_positions = << [x_start |-> 0, x_end |-> 100] >>
            /\ entry.text_elements = <<>>
            /\ entry.images = <<>>
            /\ entry.tables = <<>>
            /\ entry.special_notes = "Fallback analysis used"

\* C18: an API exception, a timeout or a response that is not valid JSON
\* on a page is never raised by analyze_document: the page's entry is the
\* default single-column layout (LayoutAnalyzer) or the parsed fallback
\* analysis (ClaudeVisionAnalyzer), and the returned document has one entry
\* for every analysed page, the one _analyze_page returned for it.
C18_HintFailureNeverRaised ==
    /\ Len(responses) > 0 /\ responses[Len(responses)].kind \in ServiceFailures
           => pc # "raised" /\ Len(page_layouts) = Len(responses)
    /\ \A k \in 1..Len(page_layouts) :
           responses[k].kind \in ServiceFailures
               => IsFallbackEntry(page_layouts[k], analysed_pages(analyzer)[k])
    /\ pc = "analyzed" =>
           /\ Len(page_layouts) = Len(analysed_pages(analyzer))
           /\ \A k \in 1..Len(page_layouts) :
                 LET page_num == analysed_pages(analyzer)[k]
                 IN  IF analyzer.name = "layout"
                     THEN result[1].pages[page_num + 1] = page_layouts[k]
                     ELSE result[1].pages[k] = page_layouts[k]
           /\ Len(result[1].pages) = analyzer.total_pages

\* C18 witness: ClaudeVisionAnalyzer has returned the analysis of a
\* document on which the service timed out for one page, gave invalid JSON
\* for another and raised an API error for a third.
C18_Witness ==
    /\ pc = "analyzed"
    /\ analyzer.name = "vision"
    /\ \E i, j, k \in 1..Len(responses) :
          /\ responses[i].kind = "timeout"
          /\ responses[j].kind = "invalid_json"
          /\ responses[k].kind = "api_error"
    /\ \E k \in 1..Len(responses) : responses[k].kind = "ok"

\* LayoutAnalyzer has returned the layout of a document of more pages than
\* it sampled, the service having failed on a sampled page.
LayoutSampledWithFailure ==
    /\ pc = "analyzed"
    /\ analyzer.name = "layout"
    /\ analyzer.total_pages > Len(page_layouts)
    /\ \E k \in 1..Len(responses) : responses[k].kind \in ServiceFailures

---------------------------------------------------------------------------
(* Properties of _detect_columns (specification SpecDetect)                *)

\* A box of zero width or zero height.
IsDegenerate(line) ==
    \/ line.bbox[1] = line.bbox[3]
    \/ line.bbox[2] = line.bbox[4]

\* C21: lines with a degenerate box (zero width or zero height) are
\* dropped from the input of the column detection: the ColumnInfo that
\* _detect_columns returns for the lines of a page is the one it returns
\* for the lines without the degenerate ones.
C21_DegenerateLinesDropped ==
    pc = "columns_detected" =>
        column_info =
            detect_columns(SelectSeq(lines, LAMBDA l : ~IsDegenerate(l)),
                           page_width)

\* C27: the num_columns that _detect_columns returns is at least 1 and at
\* most 4.
C27_ColumnCountBetweenOneAndFour ==
    pc = "columns_detected" =>
        /\ column_info.num_columns >= 1
        /\ column_info.num_columns <= 4

\* C25: no gutter position of a multi-column ColumnInfo returned by
\* _detect_columns, merged gutters included, is crossed by a line of the
\* input: no line's horizontal span strictly contains it.
C25_NoLineCrossesGutter ==
    pc = "columns_detected" /\ column_info.num_columns >= 2 =>
        \A g \in 1..Len(column_info.gutter_positions) :
            \A i \in 1..Len(lines) :
                ~(/\ lines[i].bbox[1] < column_info.gutter_positions[g]
                  /\ column_info.gutter_positions[g] < lines[i].bbox[3])

\* The content area of the lines: leftmost and rightmost text edge.
ContentLeft == SeqMin([i \in 1..Len(lines) |-> lines[i].bbox[1]])
ContentRight == SeqMax([i \in 1..Len(lines) |-> lines[i].bbox[3]])

\* The candidate columns: the boundaries that the merged gutters cut out of
\* the content area, before the width validation.
CandidateColumns ==
    column_boundaries(ContentLeft, ContentRight,
                      merged_gutters(lines, page_width))

\* The candidate columns at least 15% of the content width wide.
WideCandidates ==
    {k \in 1..Len(CandidateColumns) :
        (CandidateColumns[k][2] - CandidateColumns[k][1]) * 100
            >= (ContentRight - ContentLeft) * 15}

NarrowColumnRejected ==
    /\ pc = "columns_detected"
    /\ Len(lines) > 0
    /\ column_info.num_columns >= 2
    /\ Cardinality(WideCandidates) < Len(CandidateColumns)

---------------------------------------------------------------------------
(* Properties of DOCXGenerator.generate (specification SpecGenerate)       *)

\* What the body can hold after the first k pages were emitted in list
\* order, one page break between two pages: for every page, whatever
\* pictures failed, the items of _generate_page.
RECURSIVE EmittedInOrder(_)
EmittedInOrder(k) ==
    IF k = 0 THEN {<<>>}
    ELSE {d \o (IF k > 1 THEN << [kind |-> "page_break", where |-> "body"] >>
                ELSE <<>>)
            \o generate_page(pages[k], bad) :
          d \in EmittedInOrder(k - 1), bad \in SUBSET ImageIds(pages[k])}

\* C22: generate emits the pages strictly in list order: the body is the
\* items of page 1, then for every later page one page break followed by
\* that page's items, so that after k pages there are exactly k - 1 page
\* breaks and none before the first page; doc.save is called only after the
\* last page was generated.
C22_PagesEmittedInListOrder ==
    pc \in {"generating", "returned"} /\ Len(pages) > 0 =>
        /\ doc \in EmittedInOrder(page_index)
        /\ Len(SelectSeq(doc, LAMBDA it : it.kind = "page_break"))
               = (IF page_index = 0 THEN 0 ELSE page_index - 1)
        /\ save_outcome # "not_called" => page_index = Len(pages)
        /\ pc = "returned" => save_outcome # "not_called"

\* Two different pages with content were generated and the document saved.
C22_Witness ==
    /\ pc = "returned"
    /\ save_outcome = "saved"
    /\ Len(pages) = 2
    /\ pages[1] # pages[2]
    /\ Len(pages[1].elements) > 0
    /\ Len(pages[2].elements) > 0
    /\ Len(SelectSeq(doc, LAMBDA it : it.kind = "page_break")) = 1
    /\ doc[1].kind # "page_break"

---------------------------------------------------------------------------
(* Completeness of _create_reading_order (specification SpecOrder)         *)

\* Number of elements of the list that hold the given image or table.
EmittedItem(element_type, item) ==
    Cardinality({k \in 1..Len(elements) :
                    /\ elements[k].element_type = element_type
                    /\ elements[k].element = item})

\* C23: every text block, image and table passed to _create_reading_order
\* appears exactly once in the returned list, also when several full-width
\* elements share a vertical position and when an element lies above the
\* page origin.
C23_EveryElementExactlyOnce ==
    Ordered =>
        /\ \A k \in 1..Len(text_blocks) : Emitted(text_blocks[k]) = 1
        /\ \A k \in 1..Len(images) : EmittedItem("image", images[k]) = 1
        /\ \A k \in 1..Len(tables) : EmittedItem("table", tables[k]) = 1

---------------------------------------------------------------------------
(* Completeness of DOCXGenerator._generate_page (specification SpecDocx)   *)

\* The elements of the page that hold the given key.
ElementsWithKey(key) ==
    {k \in 1..Len(pages[1].elements) :
        ElementKey(pages[1].elements[k].element_type,
                   pages[1].elements[k].element) = key}

\* Number of paragraphs, pictures and tables written for the given key, in
\* the body and in the cells of the column containers.
WrittenFor(key) ==
    Len(SelectSeq(written(doc),
                  LAMBDA it : it.kind \in {"paragraph", "picture", "table"}
                              /\ it.key = key))

\* Number of paragraphs, pictures and tables written for the given key in
\* the cell of column c of a column container.
WrittenInCell(key, c) ==
    Cardinality({<<i, j>> \in (1..Len(doc)) \X (1..Len(doc)) :
                    /\ doc[i].kind = "columns"
                    /\ c <= Len(doc[i].cells)
                    /\ j <= Len(doc[i].cells[c])
                    /\ doc[i].cells[c][j].kind \in {"paragraph", "picture", "table"}
                    /\ doc[i].cells[c][j].key = key})

\* C24: every element of page.elements is written exactly once by
\* _generate_page, the page-number header and footer blocks excepted, which
\* are not written; a table or image assigned to a column is written into
\* the cell of that column.
C24_EveryElementWrittenOnce ==
    PageWritten =>
        \A k \in 1..Len(pages[1].elements) :
            LET e == pages[1].elements[k]
                key == ElementKey(e.element_type, e.element)
            IN  /\ WrittenFor(key) = (IF IsPageNumber(e) THEN 0
                                      ELSE Cardinality(ElementsWithKey(key)))
                /\ (/\ pages[1].column_info.num_columns > 1
                    /\ e.element_type \in {"image", "table"}
                    /\ e.column >= 1)
                   => WrittenInCell(key, e.column) = 1

---------------------------------------------------------------------------
(* List items in _group_lines_into_blocks (specification SpecBlocks)       *)

\* re.match(r'^[a-zA-Z][.)]\s', text)
matches_letter_marker(t) ==
    /\ Len(t) >= 3
    /\ t[1] \in Letters
    /\ t[2] \in {".", ")"}
    /\ t[3] \in Whitespace

\* The stripped text begins with a bullet glyph or matches a numbered or
\* lettered list marker.
BeginsWithListMarker(text) ==
    LET line_text == Strip(text)
    IN  /\ Len(line_text) > 0
        /\ \/ line_text[1] \in BulletChars
           \/ matches_number_marker(line_text)
           \/ matches_letter_marker(line_text)

\* C26: every line after the first of its column whose stripped text
\* begins with a bullet glyph or matches ^\d+[.)]\s or ^[a-zA-Z][.)]\s,
\* numbers of several digits included, starts a new block: no such line is
\* at the second or a later place of a block's lines.
C26_ListItemStartsBlock ==
    Grouped =>
        \A p \in BlockPlaces(text_blocks) :
            p[2] >= 2 => ~BeginsWithListMarker(text_blocks[p[1]].lines[p[2]].text)

---------------------------------------------------------------------------
(* Vertical spacers (specifications SpecFallback, SpecDocx, SpecFlow and   *)
(* SpecGenerate)                                                           *)

\* The one page of the document has been written, saved or not.
OnePageWritten ==
    pc \in {"generating", "returned"} /\ page_index = 1 /\ Len(pages) = 1

IsWrittenElement(it) == it.kind \in {"paragraph", "picture", "table"}

\* The box of the text block, image or table of the page with the given key.
BoxOfKey(key) ==
    LET page == pages[1]
        boxes == {page.text_blocks[k].bbox : k \in
                     {j \in 1..Len(page.text_blocks) :
                         ElementKey("text", page.text_blocks[j]) = key}}
                 \cup {page.images[k].bbox : k \in
                     {j \in 1..Len(page.images) :
                         ElementKey("image", page.images[j]) = key}}
                 \cup {page.tables[k].bbox : k \in
                     {j \in 1..Len(page.tables) :
                         ElementKey("table", page.tables[j]) = key}}
    IN  CHOOSE b \in boxes : TRUE

\* A spacer of the list stands between two written elements whose boxes
\* have no gap between them: the lower one starts at or above the bottom
\* of the upper one.
SpacerWithoutGap(items) ==
    \E k \in 2..(Len(items) - 1) :
        /\ items[k].kind = "spacer"
        /\ IsWrittenElement(items[k - 1])
        /\ IsWrittenElement(items[k + 1])
        /\ BoxOfKey(items[k + 1].key)[2] <= BoxOfKey(items[k - 1].key)[4]

\* The body and the cells of its column containers.
ItemLists ==
    {doc} \cup UNION { {doc[i].cells[c] : c \in 1..Len(doc[i].cells)} :
                       i \in {j \in 1..Len(doc) : doc[j].kind = "columns"} }

---------------------------------------------------------------------------
(* Properties of PDFAnalyzer._determine_reading_order (specification       *)
(* SpecReading)                                                            *)

\* The content blocks _determine_reading_order was called with.
ContentBlocks ==
    separate_header_footer(text_blocks, page_height,
                           detect_margins(text_blocks, page_width, page_height)).content

\* The columns of the returned layout that hold the centre of the block.
ColumnsOf(block) ==
    {c \in 1..Len(result[1].columns) :
        in_column(block, result[1].columns[c].x0, result[1].columns[c].x1)}

\* The leftmost column that holds the block's centre; one more than the
\* number of columns for a block in no column.
ReadingColumn(block) ==
    IF ColumnsOf(block) = {} THEN Len(result[1].columns) + 1
    ELSE CHOOSE c \in ColumnsOf(block) : \A d \in ColumnsOf(block) : c <= d

\* C30: the reading order is a permutation of the content block indices
\* 0..n-1, also with a block whose centre lies in two adjacent columns or in
\* no column; on a multi-column page the indices go column by column from
\* left to right and from top to bottom within a column.
C30_ReadingOrderIsPermutation ==
    pc = "analyzed" =>
        LET order == result[1].reading_order
            n == Len(ContentBlocks)
        IN  /\ Len(order) = n
            /\ \A i \in 0..(n - 1) :
                  Cardinality({k \in 1..Len(order) : order[k] = i}) = 1
            /\ result[1].layout_type # "single_column" =>
                  \A a, b \in 1..Len(order) :
                      a < b =>
                        LET ba == ContentBlocks[order[a] + 1]
                            bb == ContentBlocks[order[b] + 1]
                        IN  /\ ReadingColumn(ba) <= ReadingColumn(bb)
                            /\ (/\ ReadingColumn(ba) = ReadingColumn(bb)
                                /\ ColumnsOf(ba) # {})
                               => ba.bbox[2] <= bb.bbox[2]

\* A page was analysed on which one content block has its centre on the
\* boundary shared by two columns and another has it in no column.
C30_Witness ==
    /\ pc = "analyzed"
    /\ result[1].layout_type # "single_column"
    /\ \E k \in 1..Len(ContentBlocks) : Cardinality(ColumnsOf(ContentBlocks[k])) = 2
    /\ \E k \in 1..Len(ContentBlocks) : ColumnsOf(ContentBlocks[k]) = {}
    /\ Len(result[1].reading_order) >= 5

=============================================================================
